---- MODULE Spec2Model ----
(***************************************************************************)
(* AgentGuard: the interception pipeline (normalize, session limits,       *)
(* deterministic policy, intent analysis, risk thresholds, ledger append,  *)
(* session counters), the policy engine and the action-type inference.     *)
(*                                                                         *)
(* Strings are tuples of one-character strings.  Risk scores and the two   *)
(* thresholds are integers in hundredths (0.75 is 75), so every comparison *)
(* of the code is an exact integer comparison.                             *)
(***************************************************************************)
EXTENDS Integers, Sequences, FiniteSets, TLC

\* ------------------------------------------------------------------ bounds
\* Number of intercept calls a behaviour may issue (they may overlap).
MaxCalls == 2
\* The capacity of the insight store (1000 in the source, scaled down).
MaxSize == 3
\* Number of entries the Redis streams may hold.
MaxEntries == 2
\* Number of put calls on the insight store.
MaxPuts == 4

\* ------------------------------------------------------------ python values
None == [t |-> "none"]
Str(s) == [t |-> "str", v |-> s]
Num(n) == [t |-> "num", v |-> n]
IsStr(x) == x.t = "str"
IsNone(x) == x.t = "none"
\* Python truthiness of a parameter value: None, "" and 0 are falsy.
Truthy(x) ==
    CASE x.t = "none" -> FALSE
      [] x.t = "str" -> x.v # <<>>
      [] x.t = "num" -> x.v # 0
      [] OTHER -> TRUE

\* ----------------------------------------------------------- string helpers
UpperCase == <<"A", "B", "C", "D", "E", "F", "G", "H", "I", "J", "K", "L", "M", "N", "O", "P", "Q", "R", "S", "T", "U", "V", "W", "X", "Y", "Z">>
LowerCase == <<"a", "b", "c", "d", "e", "f", "g", "h", "i", "j", "k", "l", "m", "n", "o", "p", "q", "r", "s", "t", "u", "v", "w", "x", "y", "z">>
Digits == {"0", "1", "2", "3", "4", "5", "6", "7", "8", "9"}
LowerChar(c) ==
    IF \E i \in 1..Len(UpperCase) : UpperCase[i] = c
    THEN LowerCase[CHOOSE i \in 1..Len(UpperCase) : UpperCase[i] = c]
    ELSE c
\* str.lower()
Lower(s) == [i \in 1..Len(s) |-> LowerChar(s[i])]
\* The characters the regex class \w matches.
IsWordChar(c) ==
    \/ \E i \in 1..Len(LowerCase) : LowerCase[i] = c \/ UpperCase[i] = c
    \/ c \in Digits
    \/ c = "_"
StartsWith(s, p) == Len(p) <= Len(s) /\ SubSeq(s, 1, Len(p)) = p
EndsWith(s, p) == Len(p) <= Len(s) /\ SubSeq(s, Len(s) - Len(p) + 1, Len(s)) = p
Drop(s, n) == SubSeq(s, n + 1, Len(s))
Contains(s, p) == \E i \in 0..(Len(s) - Len(p)) : SubSeq(s, i + 1, i + Len(p)) = p
HasChar(s, c) == \E i \in 1..Len(s) : s[i] = c
\* Position of the first / last occurrence of character c in s, 0 if absent.
FindChar(s, c) ==
    IF HasChar(s, c) THEN CHOOSE i \in 1..Len(s) : s[i] = c /\ \A j \in 1..(i - 1) : s[j] # c
    ELSE 0
RFindChar(s, c) ==
    IF HasChar(s, c) THEN CHOOSE i \in 1..Len(s) : s[i] = c /\ \A j \in (i + 1)..Len(s) : s[j] # c
    ELSE 0
\* str.rstrip("/")
RECURSIVE RStripSlash(_)
RStripSlash(s) ==
    IF s # <<>> /\ s[Len(s)] = "/" THEN RStripSlash(SubSeq(s, 1, Len(s) - 1)) ELSE s
\* str.replace("\\", "/")
FoldBackslash(s) == [i \in 1..Len(s) |-> IF s[i] = "\\" THEN "/" ELSE s[i]]

\* The home directory os.path.expanduser substitutes for a leading "~".
HomeDir == <<"/", "h", "o", "m", "e", "/", "u">>
\* os.path.expanduser for the forms "~" and "~/...".
ExpandUser(p) ==
    IF p # <<>> /\ p[1] = "~" /\ (Len(p) = 1 \/ p[2] = "/")
    THEN HomeDir \o Drop(p, 1)
    ELSE p


\* ------------------------------------------------ interceptor/action_types.py
ActionTypes ==
    {"tool_call", "shell_command", "file_read", "file_write", "http_request",
     "memory_write", "credential_access", "unknown"}

CREDENTIAL_PATTERNS ==
    << <<".", "s", "s", "h", "/", "i", "d", "_", "r", "s", "a">>,
       <<".", "s", "s", "h", "/", "i", "d", "_", "e", "d", "2", "5", "5", "1", "9">>,
       <<".", "s", "s", "h", "/", "i", "d", "_", "e", "c", "d", "s", "a">>,
       <<".", "s", "s", "h", "/", "i", "d", "_", "d", "s", "a">>,
       <<".", "s", "s", "h", "/", "a", "u", "t", "h", "o", "r", "i", "z", "e", "d", "_", "k", "e", "y", "s">>,
       <<".", "s", "s", "h", "/", "k", "n", "o", "w", "n", "_", "h", "o", "s", "t", "s">>,
       <<".", "a", "w", "s", "/", "c", "r", "e", "d", "e", "n", "t", "i", "a", "l", "s">>,
       <<".", "a", "w", "s", "/", "c", "o", "n", "f", "i", "g">>,
       <<".", "e", "n", "v">>,
       <<".", "n", "e", "t", "r", "c">>,
       <<"/", "e", "t", "c", "/", "p", "a", "s", "s", "w", "d">>,
       <<"/", "e", "t", "c", "/", "s", "h", "a", "d", "o", "w">>,
       <<"/", "e", "t", "c", "/", "s", "u", "d", "o", "e", "r", "s">>,
       <<"c", "r", "e", "d", "e", "n", "t", "i", "a", "l", "s", ".", "j", "s", "o", "n">> >>

CREDENTIAL_EXTENSIONS ==
    { <<".", "p", "e", "m">>,
      <<".", "k", "e", "y">>,
      <<".", "p", "1", "2">>,
      <<".", "p", "f", "x">>,
      <<".", "c", "r", "t">>,
      <<".", "c", "e", "r">> }

\* Each regex ^(w1|w2|...)\b of _TOOL_TYPE_PATTERNS as the list of words it
\* alternates over, in the order of the list, with the type it yields.

TOOL_TYPE_PATTERNS ==
    << [type |-> "shell_command",
        words |-> { <<"b", "a", "s", "h">>,
                   <<"s", "h", "e", "l", "l">>,
                   <<"s", "u", "b", "p", "r", "o", "c", "e", "s", "s">>,
                   <<"e", "x", "e", "c">>,
                   <<"r", "u", "n", "_", "c", "o", "m", "m", "a", "n", "d">>,
                   <<"t", "e", "r", "m", "i", "n", "a", "l">>,
                   <<"s", "h">> }],
       [type |-> "file_write",
        words |-> { <<"f", "i", "l", "e", ".", "w", "r", "i", "t", "e">>,
                   <<"w", "r", "i", "t", "e", "_", "f", "i", "l", "e">>,
                   <<"s", "a", "v", "e", "_", "f", "i", "l", "e">>,
                   <<"c", "r", "e", "a", "t", "e", "_", "f", "i", "l", "e">>,
                   <<"a", "p", "p", "e", "n", "d", "_", "f", "i", "l", "e">> }],
       [type |-> "file_read",
        words |-> { <<"f", "i", "l", "e", ".", "r", "e", "a", "d">>,
                   <<"r", "e", "a", "d", "_", "f", "i", "l", "e">>,
                   <<"o", "p", "e", "n", "_", "f", "i", "l", "e">>,
                   <<"c", "a", "t">>,
                   <<"r", "e", "a", "d">> }],
       [type |-> "http_request",
        words |-> { <<"h", "t", "t", "p">>,
                   <<"r", "e", "q", "u", "e", "s", "t">>,
                   <<"r", "e", "q", "u", "e", "s", "t", "s">>,
                   <<"c", "u", "r", "l">>,
                   <<"f", "e", "t", "c", "h">>,
                   <<"w", "e", "b", "_", "r", "e", "q", "u", "e", "s", "t">>,
                   <<"h", "t", "t", "p", "_", "r", "e", "q", "u", "e", "s", "t">>,
                   <<"h", "t", "t", "p", "_", "p", "o", "s", "t">>,
                   <<"h", "t", "t", "p", "_", "g", "e", "t">> }],
       [type |-> "memory_write",
        words |-> { <<"m", "e", "m", "o", "r", "y", ".", "w", "r", "i", "t", "e">>,
                   <<"m", "e", "m", "o", "r", "y", ".", "s", "e", "t">>,
                   <<"m", "e", "m", "o", "r", "y", ".", "u", "p", "d", "a", "t", "e">>,
                   <<"s", "e", "t", "_", "m", "e", "m", "o", "r", "y">>,
                   <<"u", "p", "d", "a", "t", "e", "_", "m", "e", "m", "o", "r", "y">> }],
       [type |-> "credential_access",
        words |-> { <<"c", "r", "e", "d", "e", "n", "t", "i", "a", "l">>,
                   <<"s", "e", "c", "r", "e", "t">>,
                   <<"v", "a", "u", "l", "t">>,
                   <<"k", "e", "y", "c", "h", "a", "i", "n">> }] >>

\* parameters.get(key): a parameters mapping is a function from key names to
\* tagged values.
Get(parameters, key) == IF key \in DOMAIN parameters THEN parameters[key] ELSE None

PATH_KEYS == <<"path", "file", "filename", "filepath", "file_path">>
URL_KEYS == <<"url", "endpoint", "uri", "href">>
CMD_KEYS == <<"command", "cmd", "script">>

\* First index of keys whose value is truthy and a string, 0 if there is none.
FirstStrKey(parameters, keys) ==
    IF \E i \in 1..Len(keys) : Truthy(Get(parameters, keys[i])) /\ IsStr(Get(parameters, keys[i]))
    THEN CHOOSE i \in 1..Len(keys) :
            /\ Truthy(Get(parameters, keys[i])) /\ IsStr(Get(parameters, keys[i]))
            /\ \A j \in 1..(i - 1) :
                 ~(Truthy(Get(parameters, keys[j])) /\ IsStr(Get(parameters, keys[j])))
    ELSE 0

\* extract_file_path: the first truthy string under a path key, else None.
extract_file_path(parameters) ==
    LET i == FirstStrKey(parameters, PATH_KEYS)
    IN  IF i = 0 THEN None ELSE Get(parameters, PATH_KEYS[i])

SchemeSep == <<":", "/", "/">>
HttpsPrefix == <<"h", "t", "t", "p", "s", ":", "/", "/">>
IsAlpha(c) == \E i \in 1..Len(LowerCase) : LowerCase[i] = c \/ UpperCase[i] = c
IsSchemeChar(c) == IsAlpha(c) \/ c \in Digits \/ c \in {"+", "-", "."}
\* The prefix of s before the first character of set stop.
TakeUntil(s, stop) ==
    IF \E i \in 1..Len(s) : s[i] \in stop
    THEN SubSeq(s, 1, (CHOOSE i \in 1..Len(s) : s[i] \in stop /\ \A j \in 1..(i - 1) : s[j] \notin stop) - 1)
    ELSE s
\* urlparse(url).hostname: the scheme is split off at the first ":", the
\* network location is what follows "//" up to "/", "?" or "#", the host is
\* what follows the last "@" up to the first ":", lowercased.
UrlHostname(url) ==
    LET i == FindChar(url, ":")
        hasScheme == i > 1 /\ IsAlpha(url[1]) /\ \A j \in 1..(i - 1) : IsSchemeChar(url[j])
        rest == IF hasScheme THEN Drop(url, i) ELSE url
        netloc == IF StartsWith(rest, <<"/", "/">>) THEN TakeUntil(Drop(rest, 2), {"/", "?", "#"}) ELSE <<>>
        hostinfo == Drop(netloc, RFindChar(netloc, "@"))
    IN  Lower(TakeUntil(hostinfo, {":"}))

\* extract_url_domain: the hostname of the first truthy string under a url
\* key ("https://" is prepended when the value holds no "://"), None when
\* there is no such value or the hostname is empty.
extract_url_domain(parameters) ==
    LET i == FirstStrKey(parameters, URL_KEYS)
        val == Get(parameters, URL_KEYS[i]).v
        url == IF Contains(val, SchemeSep) THEN val ELSE HttpsPrefix \o val
        host == UrlHostname(url)
    IN  IF i = 0 THEN None
        ELSE IF host = <<>> THEN None ELSE Str(host)

\* _normalize_path: expand ~, fold backslashes.
_normalize_path(path) == FoldBackslash(ExpandUser(path))

\* PurePosixPath(p).name: the last component, trailing "/" and "." components
\* dropped; empty for the root.
RECURSIVE PathName(_)
PathName(p) ==
    LET s == RStripSlash(p)
        last == Drop(s, RFindChar(s, "/"))
    IN  IF s = <<>> THEN <<>>
        ELSE IF last = <<".">> /\ Len(s) > 1 THEN PathName(SubSeq(s, 1, Len(s) - 1))
        ELSE last
\* PurePosixPath(p).suffix: from the last "." of the name, unless that dot
\* is the first or the last character of the name.
PathSuffix(p) ==
    LET name == PathName(p)
        i == RFindChar(name, ".")
    IN  IF i > 1 /\ i < Len(name) THEN Drop(name, i - 1) ELSE <<>>

DotEnv == <<".", "e", "n", "v">>
\* is_credential_path
is_credential_path(path) ==
    LET normalized == Lower(_normalize_path(path))
        name == PathName(normalized)
    IN  \/ PathSuffix(normalized) \in CREDENTIAL_EXTENSIONS
        \/ \E k \in 1..Len(CREDENTIAL_PATTERNS) :
              LET pattern_lower == Lower(CREDENTIAL_PATTERNS[k])
              IN  \/ EndsWith(normalized, <<"/">> \o pattern_lower)
                  \/ normalized = pattern_lower
                  \/ (~HasChar(pattern_lower, "/") /\ name = pattern_lower)
        \/ name = DotEnv
        \/ EndsWith(name, DotEnv)

\* pattern.match(tool_name) for a regex ^(words)\b compiled with re.I: some
\* word is a case-insensitive prefix and a word boundary follows it.
ToolPatternMatches(words, tool_name) ==
    \E w \in words :
        /\ Len(w) <= Len(tool_name)
        /\ Lower(SubSeq(tool_name, 1, Len(w))) = w
        /\ (Len(tool_name) = Len(w) \/ ~IsWordChar(tool_name[Len(w) + 1]))

WRITE_KEYWORDS == { <<"w", "r", "i", "t", "e">>, <<"s", "a", "v", "e">>, <<"c", "r", "e", "a", "t", "e">>, <<"a", "p", "p", "e", "n", "d">>, <<"p", "u", "t">> }

\* infer_action_type
infer_action_type(tool_name, parameters) ==
    LET path == extract_file_path(parameters)
        hit == IF \E i \in 1..Len(TOOL_TYPE_PATTERNS) :
                    ToolPatternMatches(TOOL_TYPE_PATTERNS[i].words, tool_name)
               THEN CHOOSE i \in 1..Len(TOOL_TYPE_PATTERNS) :
                    /\ ToolPatternMatches(TOOL_TYPE_PATTERNS[i].words, tool_name)
                    /\ \A j \in 1..(i - 1) :
                         ~ToolPatternMatches(TOOL_TYPE_PATTERNS[j].words, tool_name)
               ELSE 0
    IN  IF hit # 0
        THEN IF /\ TOOL_TYPE_PATTERNS[hit].type = "file_write"
                /\ Truthy(path)
                /\ is_credential_path(path.v)
             THEN "credential_access"
             ELSE TOOL_TYPE_PATTERNS[hit].type
        ELSE IF Truthy(path)
        THEN IF is_credential_path(path.v) THEN "credential_access"
             ELSE IF \E kw \in WRITE_KEYWORDS : Contains(Lower(tool_name), kw) THEN "file_write"
             ELSE "file_read"
        ELSE IF ~IsNone(extract_url_domain(parameters)) THEN "http_request"
        ELSE IF \E i \in 1..Len(CMD_KEYS) : Truthy(Get(parameters, CMD_KEYS[i])) THEN "shell_command"
        ELSE "tool_call"

\* ------------------------------------------------------------ policy/engine.py
\* fnmatch.fnmatchcase for patterns made of literals, "*" and "?".
RECURSIVE FnMatch(_, _)
FnMatch(name, pat) ==
    IF pat = <<>> THEN name = <<>>
    ELSE IF pat[1] = "*"
         THEN \E k \in 0..Len(name) : FnMatch(Drop(name, k), Drop(pat, 1))
    ELSE IF pat[1] = "?"
         THEN name # <<>> /\ FnMatch(Drop(name, 1), Drop(pat, 1))
    ELSE name # <<>> /\ name[1] = pat[1] /\ FnMatch(Drop(name, 1), Drop(pat, 1))

\* _domain_matches
_domain_matches(domain, pattern) ==
    IF StartsWith(pattern, <<"*", ".">>)
    THEN domain = Drop(pattern, 2) \/ EndsWith(domain, Drop(pattern, 1))
    ELSE domain = pattern \/ FnMatch(domain, pattern)

\* re.fullmatch(_glob_to_regex(pattern), path): "**/" is (?:.+/)?, "**" is
\* .*, "*" is [^/]*, "?" is [^/], anything else is the literal character.
RECURSIVE GlobFullMatch(_, _)
GlobFullMatch(path, pat) ==
    IF pat = <<>> THEN path = <<>>
    ELSE IF StartsWith(pat, <<"*", "*", "/">>)
         THEN \/ GlobFullMatch(path, Drop(pat, 3))
              \/ \E k \in 2..Len(path) :
                    path[k] = "/" /\ GlobFullMatch(Drop(path, k), Drop(pat, 3))
    ELSE IF StartsWith(pat, <<"*", "*">>)
         THEN \E k \in 0..Len(path) : GlobFullMatch(Drop(path, k), Drop(pat, 2))
    ELSE IF pat[1] = "*"
         THEN \E k \in 0..Len(path) :
                 /\ \A j \in 1..k : path[j] # "/"
                 /\ GlobFullMatch(Drop(path, k), Drop(pat, 1))
    ELSE IF pat[1] = "?"
         THEN path # <<>> /\ path[1] # "/" /\ GlobFullMatch(Drop(path, 1), Drop(pat, 1))
    ELSE path # <<>> /\ path[1] = pat[1] /\ GlobFullMatch(Drop(path, 1), Drop(pat, 1))

\* _path_matches
_path_matches(path, pattern) ==
    LET expanded_path == RStripSlash(FoldBackslash(ExpandUser(path)))
        expanded_pattern == RStripSlash(FoldBackslash(ExpandUser(pattern)))
    IN  GlobFullMatch(expanded_path, expanded_pattern)

NoViolation == [rule_name |-> "none", rule_type |-> "none", decision |-> "none"]
PolicyViolation(name, type, decision) ==
    [rule_name |-> name, rule_type |-> type, decision |-> decision]
Outcome(decision, violation) == [decision |-> decision, violation |-> violation]

\* any(fnmatch(tool_name.lower(), p.lower()) for p in patterns)
ToolInList(tool_name, patterns) ==
    \E i \in 1..Len(patterns) : FnMatch(Lower(tool_name), Lower(patterns[i]))

\* evaluate with the review_tools rule tried first.
evaluate_review_first(cfg, action) ==
    LET path == extract_file_path(action.parameters)
        domain == extract_url_domain(action.parameters)
    IN  IF ToolInList(action.tool_name, cfg.review_tools)
        THEN Outcome("review", PolicyViolation("review_tools", "tool_review", "review"))
        ELSE IF ToolInList(action.tool_name, cfg.deny_tools)
        THEN Outcome("block", PolicyViolation("deny_tools", "tool_blacklist", "block"))
        ELSE IF cfg.allow_tools # <<>> /\ ~ToolInList(action.tool_name, cfg.allow_tools)
        THEN Outcome("block", PolicyViolation("allow_tools", "tool_allowlist", "block"))
        ELSE IF /\ action.type \in {"file_read", "file_write", "credential_access"}
                /\ Truthy(path)
                /\ \E i \in 1..Len(cfg.deny_path_patterns) :
                      _path_matches(path.v, cfg.deny_path_patterns[i])
        THEN Outcome("block", PolicyViolation("deny_path_patterns", "path_blacklist", "block"))
        ELSE IF action.type = "credential_access"
        THEN Outcome("block", PolicyViolation("credential_access", "credential_pattern", "block"))
        ELSE IF /\ action.type = "http_request"
                /\ Truthy(domain)
                /\ \E i \in 1..Len(cfg.deny_domains) :
                      _domain_matches(domain.v, cfg.deny_domains[i])
        THEN Outcome("block", PolicyViolation("deny_domains", "domain_blacklist", "block"))
        ELSE Outcome("allow", NoViolation)

\* evaluate without the credential_access rule.
evaluate_no_credential_rule(cfg, action) ==
    LET path == extract_file_path(action.parameters)
        domain == extract_url_domain(action.parameters)
    IN  IF ToolInList(action.tool_name, cfg.deny_tools)
        THEN Outcome("block", PolicyViolation("deny_tools", "tool_blacklist", "block"))
        ELSE IF cfg.allow_tools # <<>> /\ ~ToolInList(action.tool_name, cfg.allow_tools)
        THEN Outcome("block", PolicyViolation("allow_tools", "tool_allowlist", "block"))
        ELSE IF /\ action.type \in {"file_read", "file_write", "credential_access"}
                /\ Truthy(path)
                /\ \E i \in 1..Len(cfg.deny_path_patterns) :
                      _path_matches(path.v, cfg.deny_path_patterns[i])
        THEN Outcome("block", PolicyViolation("deny_path_patterns", "path_blacklist", "block"))
        ELSE IF /\ action.type = "http_request"
                /\ Truthy(domain)
                /\ \E i \in 1..Len(cfg.deny_domains) :
                      _domain_matches(domain.v, cfg.deny_domains[i])
        THEN Outcome("block", PolicyViolation("deny_domains", "domain_blacklist", "block"))
        ELSE IF ToolInList(action.tool_name, cfg.review_tools)
        THEN Outcome("review", PolicyViolation("review_tools", "tool_review", "review"))
        ELSE Outcome("allow", NoViolation)

\* PolicyEngine.evaluate: the first rule that fires decides.
evaluate(cfg, action) ==
    LET path == extract_file_path(action.parameters)
        domain == extract_url_domain(action.parameters)
    IN  IF ToolInList(action.tool_name, cfg.deny_tools)
        THEN Outcome("block", PolicyViolation("deny_tools", "tool_blacklist", "block"))
        ELSE IF cfg.allow_tools # <<>> /\ ~ToolInList(action.tool_name, cfg.allow_tools)
        THEN Outcome("block", PolicyViolation("allow_tools", "tool_allowlist", "block"))
        ELSE IF /\ action.type \in {"file_read", "file_write", "credential_access"}
                /\ Truthy(path)
                /\ \E i \in 1..Len(cfg.deny_path_patterns) :
                      _path_matches(path.v, cfg.deny_path_patterns[i])
        THEN Outcome("block", PolicyViolation("deny_path_patterns", "path_blacklist", "block"))
        ELSE IF action.type = "credential_access"
        THEN Outcome("block", PolicyViolation("credential_access", "credential_pattern", "block"))
        ELSE IF /\ action.type = "http_request"
                /\ Truthy(domain)
                /\ \E i \in 1..Len(cfg.deny_domains) :
                      _domain_matches(domain.v, cfg.deny_domains[i])
        THEN Outcome("block", PolicyViolation("deny_domains", "domain_blacklist", "block"))
        ELSE IF ToolInList(action.tool_name, cfg.review_tools)
        THEN Outcome("review", PolicyViolation("review_tools", "tool_review", "review"))
        ELSE Outcome("allow", NoViolation)

\* evaluate_risk with an exclusive risk threshold.
evaluate_risk_exclusive(cfg, risk_score) ==
    IF risk_score > cfg.risk_threshold
    THEN Outcome("block", PolicyViolation("risk_threshold", "risk_score", "block"))
    ELSE IF risk_score >= cfg.review_threshold
    THEN Outcome("review", PolicyViolation("review_threshold", "risk_score", "review"))
    ELSE Outcome("allow", NoViolation)

\* evaluate_risk with the outcomes of its two branches exchanged.
evaluate_risk_swapped(cfg, risk_score) ==
    IF risk_score >= cfg.risk_threshold
    THEN Outcome("review", PolicyViolation("review_threshold", "risk_score", "review"))
    ELSE IF risk_score >= cfg.review_threshold
    THEN Outcome("block", PolicyViolation("risk_threshold", "risk_score", "block"))
    ELSE Outcome("allow", NoViolation)

\* PolicyEngine.evaluate_risk
evaluate_risk(cfg, risk_score) ==
    IF risk_score >= cfg.risk_threshold
    THEN Outcome("block", PolicyViolation("risk_threshold", "risk_score", "block"))
    ELSE IF risk_score >= cfg.review_threshold
    THEN Outcome("review", PolicyViolation("review_threshold", "risk_score", "review"))
    ELSE Outcome("allow", NoViolation)

\* evaluate_session_limits without the max_actions test.
evaluate_session_limits_blocked_only(cfg, session_actions, session_blocked) ==
    IF cfg.max_blocked # 0 /\ session_blocked >= cfg.max_blocked
    THEN Outcome("block", PolicyViolation("session_limits", "session_max_blocked", "block"))
    ELSE Outcome("allow", NoViolation)

\* PolicyEngine.evaluate_session_limits: a limit of 0 is falsy and switches
\* its check off.
evaluate_session_limits(cfg, session_actions, session_blocked) ==
    IF cfg.max_actions # 0 /\ session_actions >= cfg.max_actions
    THEN Outcome("block", PolicyViolation("session_limits", "session_max_actions", "block"))
    ELSE IF cfg.max_blocked # 0 /\ session_blocked >= cfg.max_blocked
    THEN Outcome("block", PolicyViolation("session_limits", "session_max_blocked", "block"))
    ELSE Outcome("allow", NoViolation)

\* ------------------------------------------------------------ policy/schema.py
\* PolicyConfig construction: both thresholds in [0, 1] and, by
\* validate_thresholds, review_threshold < risk_threshold.  The session
\* limits are unconstrained integers.
ValidConfig(cfg) ==
    /\ cfg.risk_threshold \in 0..100
    /\ cfg.review_threshold \in 0..100
    /\ cfg.review_threshold < cfg.risk_threshold

\* ------------------------------------------- interceptor.py: ActionNormalizer
Dict(f) == [t |-> "dict", v |-> f]
IsDict(x) == x.t = "dict"
\* A JSON text, represented by what json.loads makes of it: kind "object"
\* (v is the parsed mapping), "other" (a list, number, string or null) or
\* "invalid" (json.loads raises).
Json(kind, f) == [t |-> "json", kind |-> kind, v |-> f]
\* Python truthiness of a payload value.
TruthyP(x) == IF x.t \in {"dict", "json"} THEN (x.t = "json" \/ DOMAIN x.v # {}) ELSE Truthy(x)
\* a or b
Or(a, b) == IF TruthyP(a) THEN a ELSE b

\* ActionType(value): the enum member with that value, "invalid" for a
\* ValueError.
ActionTypeValues ==
    << [name |-> "tool_call", value |-> <<"t", "o", "o", "l", "_", "c", "a", "l", "l">>],
       [name |-> "shell_command", value |-> <<"s", "h", "e", "l", "l", "_", "c", "o", "m", "m", "a", "n", "d">>],
       [name |-> "file_read", value |-> <<"f", "i", "l", "e", "_", "r", "e", "a", "d">>],
       [name |-> "file_write", value |-> <<"f", "i", "l", "e", "_", "w", "r", "i", "t", "e">>],
       [name |-> "http_request", value |-> <<"h", "t", "t", "p", "_", "r", "e", "q", "u", "e", "s", "t">>],
       [name |-> "memory_write", value |-> <<"m", "e", "m", "o", "r", "y", "_", "w", "r", "i", "t", "e">>],
       [name |-> "credential_access", value |-> <<"c", "r", "e", "d", "e", "n", "t", "i", "a", "l", "_", "a", "c", "c", "e", "s", "s">>],
       [name |-> "unknown", value |-> <<"u", "n", "k", "n", "o", "w", "n">>] >>
ActionTypeOf(x) ==
    IF IsStr(x) /\ \E i \in 1..Len(ActionTypeValues) : ActionTypeValues[i].value = x.v
    THEN ActionTypeValues[CHOOSE i \in 1..Len(ActionTypeValues) : ActionTypeValues[i].value = x.v].name
    ELSE "invalid"

StrUnknown == <<"u", "n", "k", "n", "o", "w", "n">>
Action(tool_name, type, parameters) ==
    [tool_name |-> tool_name, type |-> type, parameters |-> parameters]
Normalized(action) == [ok |-> TRUE, action |-> action]
\* The normalizer raised (a parameters value that is no mapping reaches
\* parameters.get or the Action model).
NormalizeRaised == [ok |-> FALSE, action |-> Action(<<>>, "unknown", <<>>)]

\* The upgrade common to the three normalizers: a file action on a
\* credential path becomes credential_access.
UpgradeCredential(action_type, parameters) ==
    LET path == extract_file_path(parameters)
    IN  IF /\ action_type \in {"file_read", "file_write"}
           /\ Truthy(path)
           /\ is_credential_path(path.v)
        THEN "credential_access"
        ELSE action_type

\* ActionNormalizer.from_dict
from_dict(payload) ==
    LET tool_name == Or(Or(Get(payload, "tool_name"), Get(payload, "name")),
                        IF "tool" \in DOMAIN payload THEN payload["tool"] ELSE Str(StrUnknown))
        given == Or(Or(Or(Get(payload, "parameters"), Get(payload, "args")),
                       Get(payload, "input")), Dict(<<>>))
        parameters == IF IsDict(given) THEN given.v ELSE ("value" :> given)
        action_type_raw == Or(Get(payload, "action_type"), Get(payload, "type"))
        action_type ==
            IF TruthyP(action_type_raw) /\ ActionTypeOf(action_type_raw) # "invalid"
            THEN ActionTypeOf(action_type_raw)
            ELSE infer_action_type(tool_name.v, parameters)
    IN  IF ~IsStr(tool_name) THEN NormalizeRaised
        ELSE Normalized(Action(tool_name.v, UpgradeCredential(action_type, parameters), parameters))

\* ActionNormalizer.from_openai_tool_call
from_openai_tool_call(tool_call) ==
    LET function == IF "function" \in DOMAIN tool_call THEN tool_call["function"].v ELSE tool_call
        tool_name == IF "name" \in DOMAIN function THEN function["name"] ELSE Str(StrUnknown)
        raw_args == IF "arguments" \in DOMAIN function THEN function["arguments"] ELSE Json("object", <<>>)
        parameters ==
            IF raw_args.t = "json"
            THEN IF raw_args.kind = "invalid" THEN ("raw" :> Str(raw_args.v)) ELSE raw_args.v
            ELSE IF TruthyP(raw_args) THEN raw_args.v ELSE <<>>
    IN  IF ~IsStr(tool_name) THEN NormalizeRaised
        ELSE IF raw_args.t = "json" /\ raw_args.kind = "other" THEN NormalizeRaised
        ELSE IF raw_args.t \notin {"json", "dict"} /\ TruthyP(raw_args) THEN NormalizeRaised
        ELSE Normalized(Action(tool_name.v,
                               UpgradeCredential(infer_action_type(tool_name.v, parameters), parameters),
                               parameters))

\* Step 1 of intercept: the framework-appropriate normalizer.
Normalize(raw_payload, framework) ==
    IF framework = "openai" /\ "function" \in DOMAIN raw_payload
    THEN from_openai_tool_call(raw_payload)
    ELSE from_dict(raw_payload)

\* -------------------------------------------------- analyzer/intent_analyzer.py
\* A reason is the tuple of the parts its text is formatted from.
RiskAssessment(score, reason, indicators, aligned, model) ==
    [risk_score |-> score, reason |-> reason, indicators |-> indicators,
     is_goal_aligned |-> aligned, analyzer_model |-> model]
NoAssessment == RiskAssessment(0, <<"none">>, <<>>, FALSE, "none")
\* RiskAssessment's field constraint ge=0.0, le=1.0.
ValidScore(score) == score >= 0 /\ score <= 100
\* The score of the fallback assessment (0.5).
FallbackScore == 50
\* _FALLBACK_ASSESSMENT, returned when the answer has no assess_risk block.
FallbackAssessment ==
    RiskAssessment(FallbackScore, <<"analyzer_unavailable - defaulting to medium risk">>,
                   <<"analyzer_error">>, FALSE, "fallback")
\* The assessment built in the except branch; exc is type(exc).__name__.
ExceptAssessment(exc) ==
    RiskAssessment(FallbackScore, <<"analyzer_unavailable: ", exc>>,
                   <<"analyzer_error">>, FALSE, "fallback")
Analyzed(assessment) == [raised |-> FALSE, assessment |-> assessment]
AnalyzeRaised == [raised |-> TRUE, assessment |-> NoAssessment]

\* analyze with no except branch: the client's exception leaves analyze.
analyze_uncaught(reply) ==
    IF reply.kind = "exception" THEN AnalyzeRaised
    ELSE IF reply.kind = "no_tool_result" THEN Analyzed(FallbackAssessment)
    ELSE IF ~ValidScore(reply.risk_score) THEN Analyzed(ExceptAssessment("ValidationError"))
    ELSE Analyzed(RiskAssessment(reply.risk_score, <<"model">>, reply.indicators,
                                 reply.aligned, "claude-sonnet-4-6"))

\* analyze with an except branch that assumes the worst: score 1.0.
analyze_fail_closed(reply) ==
    IF reply.kind = "exception"
    THEN Analyzed(RiskAssessment(100, <<"analyzer_unavailable: ", reply.exc>>,
                                 <<"analyzer_error">>, FALSE, "fallback"))
    ELSE IF reply.kind = "no_tool_result" THEN Analyzed(FallbackAssessment)
    ELSE IF ~ValidScore(reply.risk_score) THEN Analyzed(ExceptAssessment("ValidationError"))
    ELSE Analyzed(RiskAssessment(reply.risk_score, <<"model">>, reply.indicators,
                                 reply.aligned, "claude-sonnet-4-6"))

\* IntentAnalyzer.analyze.  reply is what the client call does: it raises
\* exception reply.exc (kind "exception"), answers without an assess_risk
\* block (kind "no_tool_result"), or answers with one (kind "tool_result",
\* with its risk_score and indicators).  Every exception inside the try
\* block, the validation error of an out-of-range score included, is caught.
analyze(reply) ==
    IF reply.kind = "exception" THEN Analyzed(ExceptAssessment(reply.exc))
    ELSE IF reply.kind = "no_tool_result" THEN Analyzed(FallbackAssessment)
    ELSE IF ~ValidScore(reply.risk_score) THEN Analyzed(ExceptAssessment("ValidationError"))
    ELSE Analyzed(RiskAssessment(reply.risk_score, <<"model">>, reply.indicators,
                                 reply.aligned, "claude-sonnet-4-6"))


\* ------------------------------------------------------------------- inputs
S_bash == <<"b", "a", "s", "h">>
S_email_send == <<"e", "m", "a", "i", "l", ".", "s", "e", "n", "d">>
S_file_read == <<"f", "i", "l", "e", ".", "r", "e", "a", "d">>
S_readme == <<"R", "E", "A", "D", "M", "E", ".", "m", "d">>
S_id_rsa == <<"~", "/", ".", "s", "s", "h", "/", "i", "d", "_", "r", "s", "a">>
S_ssh_glob == <<"~", "/", ".", "s", "s", "h", "/", "*", "*">>
S_ngrok_glob == <<"*", ".", "n", "g", "r", "o", "k", ".", "i", "o">>
S_ls == <<"l", "s">>

PolicyConfig(rules, risk_threshold, review_threshold, max_actions, max_blocked) ==
    [deny_tools |-> rules.deny_tools, allow_tools |-> rules.allow_tools,
     deny_path_patterns |-> rules.deny_path_patterns, deny_domains |-> rules.deny_domains,
     review_tools |-> rules.review_tools,
     risk_threshold |-> risk_threshold, review_threshold |-> review_threshold,
     max_actions |-> max_actions, max_blocked |-> max_blocked]
\* The rule lists of the policies the interceptor runs under.
Rules ==
    [deny_tools |-> <<S_bash>>, allow_tools |-> <<>>,
     deny_path_patterns |-> <<S_ssh_glob>>, deny_domains |-> <<S_ngrok_glob>>,
     review_tools |-> <<S_email_send>>]
\* (max_actions, max_blocked): both checks off, each of the two the first
\* to engage, limits that the calls do not reach, and a negative limit
\* (SessionLimits accepts every int).
LimitPairs == {<<0, 0>>, <<1, 2>>, <<2, 1>>, <<3, 2>>, <<-1, 0>>}
\* The configurations the interceptor runs under: the default thresholds
\* 0.75 and 0.60 with each pair of limits, and a stricter policy with
\* thresholds 0.50 and 0.30.
DefaultConfig == PolicyConfig(Rules, 75, 60, 2, 1)
StrictConfig == PolicyConfig(Rules, 50, 30, 0, 0)
Configs ==
    {cfg \in {PolicyConfig(Rules, 75, 60, lim[1], lim[2]) : lim \in LimitPairs}
              \cup {StrictConfig} :
        ValidConfig(cfg)}
\* The deployments: each configuration with the enrichment transport that
\* is enabled under it.
EnrichmentOf(cfg) ==
    IF cfg = DefaultConfig THEN "stream" ELSE IF cfg = StrictConfig THEN "direct" ELSE "off"

\* The requests intercept is called with: payload and framework tag.
Requests ==
    { [framework |-> "unknown",
       payload |-> ("tool_name" :> Str(S_file_read) @@ "parameters" :> Dict("path" :> Str(S_readme)))],
      [framework |-> "unknown",
       payload |-> ("tool_name" :> Str(S_bash) @@ "parameters" :> Dict("command" :> Str(S_ls)))],
      [framework |-> "langgraph",
       payload |-> ("name" :> Str(S_email_send) @@ "args" :> Dict(<<>>))],
      [framework |-> "openai",
       payload |-> ("function" :> Dict("name" :> Str(S_file_read)
                                       @@ "arguments" :> Json("object", "path" :> Str(S_id_rsa))))] }

\* The payload an adapter builds for intercept: the tool's name and
\* parameters, with the adapter's framework tag.
AdapterRequest(framework, tool_name, parameters) ==
    [framework |-> framework,
     payload |-> ("tool_name" :> Str(tool_name) @@ "parameters" :> Dict(parameters))]
\* The tool calls that reach an adapter.
AdapterRequests ==
    {AdapterRequest(framework, tool[1], tool[2]) :
        framework \in {"langgraph", "openai"},
        tool \in {<<S_file_read, "path" :> Str(S_readme)>>,
                  <<S_bash, "command" :> Str(S_ls)>>,
                  <<S_email_send, <<>>>>,
                  <<S_file_read, "path" :> Str(S_id_rsa)>>}}

\* What the analyzer's client call may do.
Reply(kind, exc, score, indicators, aligned) ==
    [kind |-> kind, exc |-> exc, risk_score |-> score, indicators |-> indicators,
     aligned |-> aligned]
Replies ==
    { Reply("exception", "APITimeoutError", 0, <<>>, FALSE),
      Reply("no_tool_result", "none", 0, <<>>, FALSE),
      Reply("tool_result", "none", 5, <<>>, TRUE),
      Reply("tool_result", "none", 65, <<"unusual_target">>, TRUE),
      Reply("tool_result", "none", 150, <<>>, FALSE) }

\* ------------------------------------------------- interceptor.py: Interceptor
VARIABLES
    config,          \* PolicyEngine._config
    enrichment,      \* "stream", "direct" or "off": the enrichment transport that is enabled
    _session_stats,  \* Interceptor._session_stats: session id -> [actions, blocked]
    pc,              \* where each intercept call stands
    call,            \* the locals of each intercept call
    _events,         \* the ledger's events by event id
    _sessions,       \* the ledger's event ids by session id, in append order
    tasks,           \* the enrichment tasks created by asyncio.create_task
    pe,              \* a direct call of the policy engine: its arguments and result
    hook,            \* a call of an adapter hook or wrapped tool around intercept call 1
    publisher,       \* the RedisStreamPublisher singleton: _enabled, _client
    stream,          \* the Redis streams and the consumer group of the events stream
    log,             \* the records the enrichment paths and the worker log
    _store,          \* the InsightsStore singleton: _maxsize, _store
    worker,          \* where each RedisStreamConsumer.run stands
    ret,             \* a direct call of a query or a normalizer: its arguments and result
    engine,          \* the PolicyEngine beside _config: _path, the policy files, a thread in evaluate
    db               \* the PostgresEventLedger: its tables and the transactions of append

\* The state outside the interceptor, its ledger and the policy engine.
more == <<ret, engine, db>>
others == <<hook, publisher, stream, log, _store, worker, more>>
vars == <<config, enrichment, _session_stats, pc, call, _events, _sessions, tasks, pe, others>>

Calls == 1..MaxCalls

\* Session ids are opaque: 0 is the id a caller passes, and the uuid4 that
\* intercept generates for call c when none is passed is c itself.
CallerSession == 0
NoSession == -1
SessionArgs == {CallerSession, NoSession}
\* An event's uuid4 id: the event built by call c has id c.
EventId(c) == c

Event(c, session_id, action, assessment, decision, violation, framework) ==
    [event_id |-> EventId(c), session_id |-> session_id, action |-> action,
     assessment |-> assessment, decision |-> decision,
     policy_violation |-> violation, framework |-> framework]
NoEvent ==
    Event(0, NoSession, Action(<<>>, "unknown", <<>>), NoAssessment, "none", NoViolation, "unknown")

\* The locals of a call: its session id, the branch of the pipeline it took
\* ("session_limit", "policy" or "classifier"), the event it builds, and
\* the step whose exception left intercept, if one did.
IdleCall == [session_id |-> NoSession, path |-> "none", event |-> NoEvent, error |-> "none"]
\* An exception propagates out of intercept: the locals are gone.
Raised(session_id, error) == [IdleCall EXCEPT !.session_id = session_id, !.error = error]

\* defaultdict(lambda: {"actions": 0, "blocked": 0}): reading a missing key
\* inserts it.
StatsOf(stats, session_id) ==
    IF session_id \in DOMAIN stats THEN stats[session_id] ELSE [actions |-> 0, blocked |-> 0]
Touch(stats, session_id) ==
    IF session_id \in DOMAIN stats THEN stats
    ELSE stats @@ (session_id :> [actions |-> 0, blocked |-> 0])

\* The assessment synthesised on the session-limit path.
SessionLimitAssessment ==
    RiskAssessment(100, <<"session_limit_exceeded">>, <<"session_limit">>, FALSE, "policy_engine")
\* A fast path with the score 0.80 for every action type.
PolicyAssessment_flat(action, violation) ==
    RiskAssessment(80, <<"policy_rule_triggered">>, <<violation.rule_type>>, FALSE, "policy_engine")
\* The assessment synthesised on the deterministic-block fast path.
PolicyAssessment(action, violation) ==
    RiskAssessment(IF action.type = "credential_access" THEN 95 ELSE 80,
                   <<"policy_rule_triggered">>, <<violation.rule_type>>, FALSE, "policy_engine")

\* Step 5 taking the risk outcome alone.
CombineRisk_risk_only(det, risk) == IF det.decision # "block" THEN risk ELSE det
\* Step 5 leaving the deterministic outcome as it is.
CombineRisk_det_only(det, risk) == det
\* Step 5 raising the decision without replacing the violation.
CombineRisk_keeps_violation(det, risk) ==
    IF det.decision # "block"
    THEN IF risk.decision = "block" THEN Outcome("block", det.violation)
         ELSE IF risk.decision = "review" /\ det.decision = "allow" THEN risk
         ELSE det
    ELSE det
\* Step 5 of intercept: the deterministic outcome combined with the risk
\* outcome.
CombineRisk(det, risk) ==
    IF det.decision # "block"
    THEN IF risk.decision = "block" THEN risk
         ELSE IF risk.decision = "review" /\ det.decision = "allow" THEN risk
         ELSE det
    ELSE det

\* Step 1 and step 3 of intercept for each request and configuration, as
\* tables over the inputs.
normalize == [r \in Requests \cup AdapterRequests |-> Normalize(r.payload, r.framework)]
deterministic ==
    [cfg \in Configs |->
        [r \in Requests \cup AdapterRequests |-> evaluate(cfg, normalize[r].action)]]

\* A session check that blocks every call after the session's first BLOCK.
SessionCheck_locks_after_block(cfg, stats) ==
    IF stats.blocked >= 1
    THEN Outcome("block", PolicyViolation("session_limits", "session_max_blocked", "block"))
    ELSE evaluate_session_limits(cfg, stats.actions, stats.blocked)
\* The session-limit check of step 2 on the counters read under the lock.
SessionCheck(cfg, stats) == evaluate_session_limits(cfg, stats.actions, stats.blocked)

\* intercept from its entry to its first suspension: normalize, read the
\* counters under the lock, the session-limit check and the deterministic
\* policy.  The call then awaits the ledger (a BLOCK) or the analyzer.
Start(c, session_arg, request) ==
    LET session_id == IF session_arg = NoSession THEN c ELSE session_arg
        norm == normalize[request]
        action == norm.action
        limit == SessionCheck(config, StatsOf(_session_stats, session_id))
        det == deterministic[config][request]
    IN  /\ pc[c] = "idle"
        /\ \A d \in Calls : d < c => pc[d] # "idle"
        /\ IF ~norm.ok
           THEN /\ pc' = [pc EXCEPT ![c] = "raised"]
                /\ call' = [call EXCEPT ![c] = Raised(session_id, "normalize")]
                /\ UNCHANGED _session_stats
           ELSE /\ _session_stats' = Touch(_session_stats, session_id)
                /\ IF limit.decision = "block"
                   THEN /\ pc' = [pc EXCEPT ![c] = "append_limit"]
                        /\ call' = [call EXCEPT ![c] =
                              [session_id |-> session_id, path |-> "session_limit", error |-> "none",
                               event |-> Event(c, session_id, action, SessionLimitAssessment,
                                               "block", limit.violation, request.framework)]]
                   ELSE IF det.decision = "block"
                   THEN /\ pc' = [pc EXCEPT ![c] = "append"]
                        /\ call' = [call EXCEPT ![c] =
                              [session_id |-> session_id, path |-> "policy", error |-> "none",
                               event |-> Event(c, session_id, action,
                                               PolicyAssessment(action, det.violation),
                                               det.decision, det.violation, request.framework)]]
                   ELSE /\ pc' = [pc EXCEPT ![c] = "analyze"]
                        /\ call' = [call EXCEPT ![c] =
                              [session_id |-> session_id, path |-> "classifier", error |-> "none",
                               event |-> Event(c, session_id, action, NoAssessment,
                                               det.decision, det.violation, request.framework)]]
        /\ UNCHANGED <<config, enrichment, _events, _sessions, tasks, pe, others>>

\* The analyzer call returns: evaluate_risk on its score, the final
\* decision, and the event is built.  The call then awaits the ledger.  An
\* exception of analyze would propagate out of intercept.
Analyze(c, reply) ==
    LET got == analyze(reply)
        ev == call[c].event
        det == Outcome(ev.decision, ev.policy_violation)
        final == CombineRisk(det, evaluate_risk(config, got.assessment.risk_score))
    IN  /\ pc[c] = "analyze"
        /\ IF got.raised
           THEN /\ pc' = [pc EXCEPT ![c] = "raised"]
                /\ call' = [call EXCEPT ![c] = Raised(call[c].session_id, "analyzer")]
           ELSE /\ pc' = [pc EXCEPT ![c] = "append"]
                /\ call' = [call EXCEPT ![c].event =
                                [ev EXCEPT !.assessment = got.assessment,
                                           !.decision = final.decision,
                                           !.policy_violation = final.violation]]
        /\ UNCHANGED <<config, enrichment, _session_stats, _events, _sessions, tasks, pe, others>>

\* ------------------------------------------------------ ledger/event_ledger.py
\* EventLedger.append on a backend that is up: _events[event_id] = event,
\* and the id is appended to the session's list (a defaultdict(list)).
LedgerEvents(events, event) ==
    IF event.event_id \in DOMAIN events
    THEN [events EXCEPT ![event.event_id] = event]
    ELSE events @@ (event.event_id :> event)
\* An append that files every event under one key.
LedgerSessions_one_key(sessions, event) ==
    IF CallerSession \in DOMAIN sessions
    THEN [sessions EXCEPT ![CallerSession] = Append(sessions[CallerSession], event.event_id)]
    ELSE sessions @@ (CallerSession :> <<event.event_id>>)

LedgerSessions(sessions, event) ==
    IF event.session_id \in DOMAIN sessions
    THEN [sessions EXCEPT ![event.session_id] = Append(sessions[event.session_id], event.event_id)]
    ELSE sessions @@ (event.session_id :> <<event.event_id>>)

\* Dispatch for BLOCK only.
Dispatch_block_only(event) ==
    IF event.decision = "block"
    THEN IF enrichment = "stream" THEN {[kind |-> "publish", event_id |-> event.event_id]}
         ELSE IF enrichment = "direct" THEN {[kind |-> "triage", event_id |-> event.event_id]}
         ELSE {}
    ELSE {}

\* Step 7 of intercept: a BLOCK or REVIEW creates one enrichment task, a
\* stream publish when the publisher is enabled, else a direct triage when
\* the enrichment client is enabled.
Dispatch(event) ==
    IF event.decision \in {"block", "review"}
    THEN IF enrichment = "stream" THEN {[kind |-> "publish", event_id |-> event.event_id]}
         ELSE IF enrichment = "direct" THEN {[kind |-> "triage", event_id |-> event.event_id]}
         ELSE {}
    ELSE {}

\* Counters that count a REVIEW as blocked.
CountAction_review_as_blocked(stats, session_id, decision) ==
    [stats EXCEPT ![session_id] =
        [actions |-> stats[session_id].actions + 1,
         blocked |-> IF decision # "allow" THEN stats[session_id].blocked + 1
                     ELSE stats[session_id].blocked]]
\* Counters that start again from 0 after a BLOCK.
CountAction_reset_on_block(stats, session_id, decision) ==
    [stats EXCEPT ![session_id] =
        IF decision = "block" THEN [actions |-> 0, blocked |-> 0]
        ELSE [actions |-> stats[session_id].actions + 1, blocked |-> stats[session_id].blocked]]
\* Step 8 of intercept: actions is incremented, blocked on a BLOCK.
CountAction(stats, session_id, decision) ==
    [stats EXCEPT ![session_id] =
        [actions |-> stats[session_id].actions + 1,
         blocked |-> IF decision = "block" THEN stats[session_id].blocked + 1
                     ELSE stats[session_id].blocked]]

\* What an exception of ledger.append does to the intercept call awaiting
\* it: intercept holds no handler, so the exception leaves intercept.
AppendFailed(c) == [pc |-> "raised", call |-> Raised(call[c].session_id, "ledger")]

\* The ledger append of the session-limit path returns (stored) or raises.
\* On return both counters are incremented and intercept returns BLOCK.
AppendLimit(c, stored) ==
    /\ pc[c] = "append_limit"
    /\ IF stored
       THEN /\ _events' = LedgerEvents(_events, call[c].event)
            /\ _sessions' = LedgerSessions(_sessions, call[c].event)
            /\ _session_stats' = CountAction(_session_stats, call[c].session_id, "block")
            /\ pc' = [pc EXCEPT ![c] = "returned"]
            /\ UNCHANGED call
       ELSE /\ pc' = [pc EXCEPT ![c] = AppendFailed(c).pc]
            /\ call' = [call EXCEPT ![c] = AppendFailed(c).call]
            /\ UNCHANGED <<_events, _sessions, _session_stats>>
    /\ UNCHANGED <<config, enrichment, tasks, pe, others>>

\* The ledger append of step 6 returns (stored) or raises.  On return:
\* enrichment dispatch, the counters, and intercept returns
\* (decision, event).
AppendEvent(c, stored) ==
    /\ pc[c] = "append"
    /\ IF stored
       THEN /\ _events' = LedgerEvents(_events, call[c].event)
            /\ _sessions' = LedgerSessions(_sessions, call[c].event)
            /\ tasks' = tasks \cup Dispatch(call[c].event)
            /\ _session_stats' = CountAction(_session_stats, call[c].session_id,
                                             call[c].event.decision)
            /\ pc' = [pc EXCEPT ![c] = "returned"]
            /\ UNCHANGED call
       ELSE /\ pc' = [pc EXCEPT ![c] = AppendFailed(c).pc]
            /\ call' = [call EXCEPT ![c] = AppendFailed(c).call]
            /\ UNCHANGED <<_events, _sessions, _session_stats, tasks>>
    /\ UNCHANGED <<config, enrichment, pe, others>>

\* ------------------------------------------- direct calls of the policy engine
S_BA_star == <<"B", "A", "*">>
S_file_star == <<"f", "i", "l", "e", ".", "*">>
S_http_request == <<"h", "t", "t", "p", ".", "r", "e", "q", "u", "e", "s", "t">>
S_ngrok_url == <<"h", "t", "t", "p", "s", ":", "/", "/", "a", "b", "c", "1", "2", "3", ".", "n", "g", "r", "o", "k", ".", "i", "o", "/", "e", "x", "f", "i", "l">>

\* The rule lists evaluate is called under: each list empty or not, a tool
\* pattern in another case than the tool, an allow list, and a tool that is
\* on the deny list and on the review list.
PeRules ==
    [deny_tools : {<<>>, <<S_BA_star>>},
     allow_tools : {<<>>, <<S_file_star>>, <<S_email_send, S_bash>>},
     deny_path_patterns : {<<>>, <<S_ssh_glob>>},
     deny_domains : {<<>>, <<S_ngrok_glob>>},
     review_tools : {<<>>, <<S_email_send, S_bash>>, <<S_file_read>>}]
PeConfigs == {PolicyConfig(rules, 75, 60, 0, 0) : rules \in PeRules}
\* The actions evaluate is called with: every type with every tool and
\* parameters.
PeActions ==
    {Action(tool, type, parameters) :
        tool \in {S_bash, S_email_send, S_file_read, S_http_request},
        type \in ActionTypes,
        parameters \in {<<>>,
                        "path" :> Str(S_readme),
                        "path" :> Str(S_id_rsa),
                        "url" :> Str(S_ngrok_url),
                        ("path" :> Str(S_id_rsa) @@ "url" :> Str(S_ngrok_url))}}

\* The thresholds and scores evaluate_risk is called with, in hundredths:
\* every pair of thresholds that PolicyConfig accepts, and the scores at,
\* just below and just above each threshold.
ThresholdValues == {0, 30, 50, 60, 75, 100}
Scores ==
    {s \in 0..100 : s % 10 = 0 \/ \E th \in ThresholdValues : s \in {th - 1, th, th + 1}}
RiskConfigs ==
    {cfg \in {PolicyConfig(Rules, risk, review, 0, 0) :
                 risk \in ThresholdValues, review \in ThresholdValues} :
        ValidConfig(cfg)}

PeCall(op, cfg, action, score, result) ==
    [op |-> op, cfg |-> cfg, action |-> action, score |-> score, result |-> result]
PeIdle == PeCall("none", DefaultConfig, Action(<<>>, "unknown", <<>>), 0, Outcome("none", NoViolation))

\* engine.evaluate(action) for the pending call: the engine holds pe.cfg.
PeEvaluate ==
    /\ pe.op = "call_evaluate"
    /\ pe' = PeCall("evaluate", pe.cfg, pe.action, 0, evaluate(pe.cfg, pe.action))
    /\ UNCHANGED <<config, enrichment, _session_stats, pc, call, _events, _sessions, tasks, others>>

\* engine.evaluate_risk(score) on an engine holding cfg.
PeEvaluateRisk(cfg, score) ==
    /\ pe' = PeCall("evaluate_risk", cfg, PeIdle.action, score, evaluate_risk(cfg, score))
    /\ UNCHANGED <<config, enrichment, _session_stats, pc, call, _events, _sessions, tasks, others>>

\* ------------------------------------------------------------ specification
\* No adapter call is in progress.
HookIdle ==
    [kind |-> "none", state |-> "idle", request |-> AdapterRequest("none", <<>>, <<>>),
     tool_runs |-> 0, result |-> "none", error |-> "none", event |-> NoEvent]
\* RedisStreamPublisher.__init__: enabled when a URL is configured, no
\* client before the first publish.
RedisStreamPublisher(enabled) == [enabled |-> enabled, client |-> "none", result |-> "none"]
\* The Redis server: both streams empty, no consumer group yet.
\* last_delivered is the group's last-delivered id, pel its pending entries.
EmptyStream ==
    [events |-> <<>>, insights |-> <<>>, group |-> FALSE, last_delivered |-> 0, pel |-> {}]
\* InsightsStore.__init__: items is _store from its first to its last key,
\* puts counts the calls of put so far.
InsightsStore(maxsize) == [maxsize |-> maxsize, items |-> <<>>, puts |-> 0]
Consumers == {"rowboat-1", "rowboat-2"}
\* A consumer before run: batch holds the ids of the entries of the read
\* under way that are still to be handled, first the first id of that read,
\* handled the ids whose handler returned.
WorkerIdle == [pc |-> "start", batch |-> <<>>, first |-> 0, handled |-> {}, closed |-> FALSE]
\* What a policy file holds: a policy document (cfg is what the YAML
\* spells, valid or not), a document with a key PolicyConfig does not know,
\* or nothing that can be opened.
Doc(kind, cfg) == [kind |-> kind, cfg |-> cfg]
NoFile == Doc("unreadable", DefaultConfig)
Paths == {"policy.yaml", "strict.yaml"}
\* No thread is in evaluate.  pos is the rule the thread is at, seen the
\* rule lists it has read so far, during the configurations that were
\* active at some moment of the call.
ThreadIdle ==
    [pos |-> 0, action |-> Action(<<>>, "unknown", <<>>), seen |-> DefaultConfig,
     during |-> {}, result |-> Outcome("none", NoViolation)]
\* PolicyEngine(config=...): no path is remembered.  error is what the last
\* reload raised.
EngineIdle ==
    [_path |-> "none", files |-> [path \in Paths |-> NoFile], error |-> "none",
     thread |-> ThreadIdle]
\* The database before any append: no event row, no session row, and no
\* transaction open.  read is the session row a transaction has read.
\* What session.get(SessionRecord, session_id) returns when there is no row.
NoRow == [exists |-> FALSE, total_events |-> 0, blocked_events |-> 0]
TxnIdle == [state |-> "idle", event |-> NoEvent, read |-> NoRow]
EmptyDb == [events |-> {}, sessions |-> <<>>, txn |-> [c \in Calls |-> TxnIdle]]
\* No direct call has been made.
RetIdle == [op |-> "none", args |-> <<>>, result |-> <<>>]
InitMore ==
    /\ ret = RetIdle
    /\ engine = EngineIdle
    /\ db = EmptyDb
InitOthers ==
    /\ hook = HookIdle
    /\ publisher = RedisStreamPublisher(enrichment = "stream")
    /\ stream = EmptyStream
    /\ log = {}
    /\ _store = InsightsStore(MaxSize)
    /\ worker = [consumer \in Consumers |-> WorkerIdle]
    /\ InitMore

Init ==
    /\ config \in Configs
    /\ enrichment = EnrichmentOf(config)
    /\ _session_stats = <<>>
    /\ pc = [c \in Calls |-> "idle"]
    /\ call = [c \in Calls |-> IdleCall]
    /\ _events = <<>>
    /\ _sessions = <<>>
    /\ tasks = {}
    /\ pe = PeIdle
    /\ InitOthers

Next ==
    \/ \E c \in Calls, s \in SessionArgs, r \in Requests : Start(c, s, r)
    \/ \E c \in Calls, reply \in Replies : Analyze(c, reply)
    \/ \E c \in Calls, stored \in BOOLEAN : AppendLimit(c, stored)
    \/ \E c \in Calls, stored \in BOOLEAN : AppendEvent(c, stored)

\* Concurrent intercept calls on one Interceptor.
Spec == Init /\ [][Next]_vars

InitPolicy ==
    /\ config = DefaultConfig
    /\ enrichment = "off"
    /\ _session_stats = <<>>
    /\ pc = [c \in Calls |-> "idle"]
    /\ call = [c \in Calls |-> IdleCall]
    /\ _events = <<>>
    /\ _sessions = <<>>
    /\ tasks = {}
    /\ pe = PeIdle
    /\ InitOthers

\* A call of evaluate about to be made, for each configuration and action.
InitEvaluate ==
    /\ config = DefaultConfig
    /\ enrichment = "off"
    /\ _session_stats = <<>>
    /\ pc = [c \in Calls |-> "idle"]
    /\ call = [c \in Calls |-> IdleCall]
    /\ _events = <<>>
    /\ _sessions = <<>>
    /\ tasks = {}
    /\ \E cfg \in PeConfigs, action \in PeActions :
           pe = PeCall("call_evaluate", cfg, action, 0, Outcome("none", NoViolation))
    /\ InitOthers

NextEvaluate == PeEvaluate
\* PolicyEngine.evaluate called with every configuration and action.
SpecEvaluate == InitEvaluate /\ [][NextEvaluate]_vars

NextRisk == \E cfg \in RiskConfigs, score \in Scores : PeEvaluateRisk(cfg, score)
\* PolicyEngine.evaluate_risk called with every pair of thresholds and score.
SpecRisk == InitPolicy /\ [][NextRisk]_vars


\* ------------------------------------------------------------------ properties
Decisions == {"allow", "review", "block"}
\* What intercept returns is a pair (decision, event): the pair is valid when
\* the decision is a Decision, the event carries it, and the assessment of
\* the event could be constructed (a score in [0, 1], a producer).
ValidResult(c) ==
    /\ call[c].event.decision \in Decisions
    /\ call[c].event.session_id = call[c].session_id
    /\ ValidScore(call[c].event.assessment.risk_score)
    /\ call[c].event.assessment.analyzer_model \in {"fallback", "policy_engine", "claude-sonnet-4-6"}

\* C1: no exception of the classifier's client call leaves intercept.  A call
\* is never ended by an exception of analyze, and every call that has come
\* back from analyze (it awaits the ledger or has returned) holds a valid
\* (decision, event) whose assessment is the model's own or a fallback.
C1_ClassifierFailureNeverRaises ==
    \A c \in Calls :
        /\ call[c].error # "analyzer"
        /\ (call[c].path = "classifier" /\ pc[c] \in {"append", "returned"}) => ValidResult(c)
\* A call whose client call raised has returned with the assessment of the
\* except branch.
C1_Witness ==
    \E c \in Calls :
        /\ pc[c] = "returned"
        /\ call[c].event.assessment = ExceptAssessment("APITimeoutError")
        /\ ValidResult(c)

\* The counters of a session as intercept reads them under the lock.
ReadStats(session_id) == StatsOf(_session_stats, session_id)
\* Call c leaves the entry of intercept in this step, on session session_id.
Enters(c) == pc[c] = "idle" /\ pc'[c] \notin {"idle", "raised"}
BlockedBySessionLimit(event) ==
    /\ event.decision = "block"
    /\ event.policy_violation.rule_name = "session_limits"
    /\ event.assessment.indicators = <<"session_limit">>

\* C2 as stated: whenever the action counter of the session has reached
\* max_actions, the next intercept on the session is blocked by
\* session_limits.
C2_Original ==
    [][\A c \in Calls :
          (Enters(c) /\ ReadStats(call'[c].session_id).actions >= config.max_actions)
              => (pc'[c] = "append_limit" /\ BlockedBySessionLimit(call'[c].event))]_vars
\* C2, amended: when max_actions is not 0 and the action counter of the
\* session has reached it, the next intercept on the session takes the
\* session-limit path with a BLOCK event of rule session_limits and
\* indicator session_limit, whatever the tool and payload, and returns that
\* event once the ledger has stored it.
C2_LimitReachedBlocks ==
    [][\A c \in Calls :
          /\ (Enters(c) /\ config.max_actions # 0
                 /\ ReadStats(call'[c].session_id).actions >= config.max_actions)
                => (pc'[c] = "append_limit" /\ BlockedBySessionLimit(call'[c].event))
          /\ (pc[c] = "append_limit" /\ pc'[c] = "returned")
                => (call'[c] = call[c] /\ BlockedBySessionLimit(call'[c].event))]_vars
\* With max_actions reached, an intercept of an action that no rule of the
\* policy matches has returned the session-limit BLOCK.
C2_Witness ==
    /\ config.max_actions > 0
    /\ \E c \in Calls :
          /\ pc[c] = "returned" /\ call[c].path = "session_limit"
          /\ call[c].event.policy_violation.rule_type = "session_max_actions"
          /\ BlockedBySessionLimit(call[c].event)
          /\ call[c].event.action.tool_name = S_file_read

\* The calls on session s that passed the session-limit check.
PassedCheck(s) ==
    {c \in Calls : call[c].session_id = s /\ call[c].path \in {"policy", "classifier"}}
\* The BLOCKs of session s that did not come from the session limit and have
\* been counted.
CountedBlocks(s) ==
    {c \in PassedCheck(s) : pc[c] = "returned" /\ call[c].event.decision = "block"}
\* C3 as stated: with a limit configured, the calls of a session that pass
\* the session-limit check never outnumber max_actions, and its counted
\* BLOCKs from other rules never outnumber max_blocked.
C3_Original ==
    \A s \in {CallerSession} \cup Calls :
        /\ config.max_actions > 0 => Cardinality(PassedCheck(s)) <= config.max_actions
        /\ config.max_blocked > 0 => Cardinality(CountedBlocks(s)) <= config.max_blocked


\* The rules of evaluate in the order of the claim, and when each fires.
RuleOrder ==
    <<"deny_tools", "allow_tools", "deny_path_patterns", "credential_access",
      "deny_domains", "review_tools">>
Fires(rule, cfg, action) ==
    LET path == extract_file_path(action.parameters)
        domain == extract_url_domain(action.parameters)
    IN  CASE rule = "deny_tools" -> ToolInList(action.tool_name, cfg.deny_tools)
          [] rule = "allow_tools" ->
                Len(cfg.allow_tools) > 0 /\ ~ToolInList(action.tool_name, cfg.allow_tools)
          [] rule = "deny_path_patterns" ->
                /\ action.type \in {"file_read", "file_write", "credential_access"}
                /\ IsStr(path)
                /\ \E i \in 1..Len(cfg.deny_path_patterns) :
                       _path_matches(path.v, cfg.deny_path_patterns[i])
          [] rule = "credential_access" -> action.type = "credential_access"
          [] rule = "deny_domains" ->
                /\ action.type = "http_request"
                /\ IsStr(domain)
                /\ \E i \in 1..Len(cfg.deny_domains) :
                       _domain_matches(domain.v, cfg.deny_domains[i])
          [] rule = "review_tools" -> ToolInList(action.tool_name, cfg.review_tools)
FiringRules(cfg, action) == {i \in 1..Len(RuleOrder) : Fires(RuleOrder[i], cfg, action)}
FirstFiring(cfg, action) ==
    CHOOSE i \in FiringRules(cfg, action) : \A j \in FiringRules(cfg, action) : i <= j

\* C4: evaluate returns the outcome of the first rule that fires in the
\* order deny_tools, allow_tools, deny_path_patterns, credential_access,
\* deny_domains, review_tools (BLOCK for the first five, REVIEW for
\* review_tools, under the rule's name), and ALLOW with no violation when
\* no rule fires.
C4_FirstFiringRuleDecides ==
    pe.op = "evaluate" =>
        IF FiringRules(pe.cfg, pe.action) = {}
        THEN pe.result = Outcome("allow", NoViolation)
        ELSE /\ pe.result.violation.rule_name = RuleOrder[FirstFiring(pe.cfg, pe.action)]
             /\ pe.result.decision =
                    (IF FirstFiring(pe.cfg, pe.action) = Len(RuleOrder) THEN "review" ELSE "block")
             /\ pe.result.violation.decision = pe.result.decision
\* evaluate was called with a tool on the deny list and on the review list,
\* and returned BLOCK under deny_tools.
C4_Witness ==
    /\ pe.op = "evaluate"
    /\ Fires("deny_tools", pe.cfg, pe.action)
    /\ Fires("review_tools", pe.cfg, pe.action)
    /\ pe.result.decision = "block"
    /\ pe.result.violation.rule_name = "deny_tools"

\* C5: for every action of type credential_access and every configuration,
\* evaluate returns BLOCK with a violation.
C5_CredentialAccessAlwaysBlocked ==
    (pe.op = "evaluate" /\ pe.action.type = "credential_access") =>
        (pe.result.decision = "block" /\ pe.result.violation # NoViolation)
\* evaluate was called with a credential_access action under a
\* configuration whose deny lists are empty and whose allow list contains
\* the tool, and returned BLOCK under the credential_access rule.
C5_Witness ==
    /\ pe.op = "evaluate"
    /\ pe.action.type = "credential_access"
    /\ pe.cfg.deny_tools = <<>> /\ pe.cfg.deny_path_patterns = <<>>
    /\ pe.cfg.deny_domains = <<>>
    /\ Len(pe.cfg.allow_tools) > 0
    /\ ToolInList(pe.action.tool_name, pe.cfg.allow_tools)
    /\ pe.result.decision = "block"
    /\ pe.result.violation.rule_name = "credential_access"

\* C6: evaluate_risk returns BLOCK under risk_threshold exactly when the
\* score is at least risk_threshold, REVIEW under review_threshold exactly
\* when the score is at least review_threshold and below risk_threshold,
\* and ALLOW with no violation otherwise.
C6_RiskThresholdsExact ==
    pe.op = "evaluate_risk" =>
        /\ (pe.result.decision = "block") <=> (pe.score >= pe.cfg.risk_threshold)
        /\ (pe.result.decision = "review") <=>
               (pe.cfg.review_threshold <= pe.score /\ pe.score < pe.cfg.risk_threshold)
        /\ pe.result.decision \in Decisions
        /\ pe.result.decision = "block" => pe.result.violation.rule_name = "risk_threshold"
        /\ pe.result.decision = "review" => pe.result.violation.rule_name = "review_threshold"
        /\ pe.result.decision = "allow" => pe.result.violation = NoViolation
\* evaluate_risk was called with a score equal to risk_threshold and
\* returned BLOCK.
C6_Witness ==
    /\ pe.op = "evaluate_risk"
    /\ pe.cfg.review_threshold < pe.cfg.risk_threshold
    /\ pe.score = pe.cfg.risk_threshold
    /\ pe.result.decision = "block"

\* ALLOW < REVIEW < BLOCK.
Restrictiveness(decision) ==
    CASE decision = "allow" -> 0 [] decision = "review" -> 1 [] decision = "block" -> 2

\* C7: evaluate_risk is monotonic in the score: of two calls under one
\* configuration, the call with the higher score returns a decision at
\* least as restrictive.
C7_RiskMonotonic ==
    [][(pe.op = "evaluate_risk" /\ pe'.op = "evaluate_risk" /\ pe'.cfg = pe.cfg
          /\ pe.score <= pe'.score)
        => Restrictiveness(pe.result.decision) <= Restrictiveness(pe'.result.decision)]_vars
\* evaluate_risk was called with a score above review_threshold and below
\* risk_threshold under thresholds that leave room for all three decisions.
C7_Witness ==
    /\ pe.op = "evaluate_risk"
    /\ 0 < pe.cfg.review_threshold
    /\ pe.cfg.review_threshold < pe.score /\ pe.score < pe.cfg.risk_threshold
    /\ pe.result.decision = "review"


\* Call c went through the classifier, neither a session limit nor a rule
\* of the policy having blocked it, and analyze gave it a fallback
\* assessment.
FallbackClassified(c) ==
    /\ pc[c] \in {"append", "returned"}
    /\ call[c].path = "classifier"
    /\ call[c].event.assessment.analyzer_model = "fallback"

\* C8 as stated: under every configuration accepted at load, an intercept
\* whose analyze call yields the fallback assessment is not blocked unless
\* a session limit or a rule of the policy fired.
C8_Original ==
    \A c \in Calls : FallbackClassified(c) => call[c].event.decision # "block"
\* C8, amended: under every configuration whose risk_threshold is above the
\* fallback score 0.5, an intercept whose analyze call yields the fallback
\* assessment is not blocked unless a session limit or a rule of the policy
\* fired.
C8_FallbackDoesNotBlock ==
    config.risk_threshold > FallbackScore =>
        \A c \in Calls : FallbackClassified(c) => call[c].event.decision # "block"
\* Under a risk_threshold above 0.5 an intercept whose client call raised
\* has returned, not blocked.
C8_Witness ==
    /\ config.risk_threshold > FallbackScore
    /\ \E c \in Calls :
          /\ FallbackClassified(c) /\ pc[c] = "returned"
          /\ call[c].event.assessment.reason = <<"analyzer_unavailable: ", "APITimeoutError">>
          /\ call[c].event.decision = "allow"

\* The number of entries of the ledger's session lists that are event_id.
Entries(event_id) ==
    Cardinality({k \in (DOMAIN _sessions) \X (1..MaxCalls) :
                    /\ k[2] <= Len(_sessions[k[1]])
                    /\ _sessions[k[1]][k[2]] = event_id})
\* C9: an intercept call that has returned (d, e) has appended exactly one
\* event, e, to the ledger: e is stored under its id and listed once, under
\* the session of the call, e.session_id is that session and e.decision is
\* d; a call that has not returned has appended nothing.  This holds on the
\* session-limit path, the deterministic-block path and the classifier path.
C9_ReturnedCallAppendedItsEvent ==
    \A c \in Calls :
        IF pc[c] = "returned"
        THEN /\ call[c].path \in {"session_limit", "policy", "classifier"}
             /\ EventId(c) \in DOMAIN _events
             /\ _events[EventId(c)] = call[c].event
             /\ call[c].event.session_id = call[c].session_id
             /\ call[c].event.decision \in Decisions
             /\ call[c].session_id \in DOMAIN _sessions
             /\ \E i \in 1..Len(_sessions[call[c].session_id]) :
                    _sessions[call[c].session_id][i] = EventId(c)
             /\ Entries(EventId(c)) = 1
        ELSE EventId(c) \notin DOMAIN _events /\ Entries(EventId(c)) = 0
\* A call on the classifier path and then a call on the session-limit path
\* have returned on one session, with their events stored in that order.
C9_Witness ==
    \E c, d \in Calls :
        /\ pc[c] = "returned" /\ call[c].path = "session_limit"
        /\ pc[d] = "returned" /\ call[d].path = "classifier"
        /\ call[d].session_id = call[c].session_id
        /\ _events[EventId(c)] = call[c].event
        /\ _events[EventId(d)] = call[d].event
        /\ _sessions[call[c].session_id] = <<EventId(d), EventId(c)>>

\* C10 as stated: a failure of the ledger's append during intercept does
\* not reach the caller: no intercept call ends with the exception of
\* append.
C10_Original ==
    \A c \in Calls : ~(pc[c] = "raised" /\ call[c].error = "ledger")


\* ------------------------------------------ direct calls of the event ledger
MaxAppends == 3
\* The events a caller of the ledger appends: two ids, two sessions and two
\* decisions, so that an id can come again with other fields.
LedgerInputs ==
    {Event(id, session_id, Action(S_bash, "shell_command", <<>>),
           RiskAssessment(score, <<"model">>, <<>>, TRUE, "claude-sonnet-4-6"),
           IF score >= 75 THEN "block" ELSE "allow", NoViolation, "unknown") :
        id \in 1..2, session_id \in {CallerSession, 1}, score \in {5, 92}}
\* The number of entries of the session lists.
LedgerEntries ==
    Cardinality({k \in (DOMAIN _sessions) \X (1..MaxAppends) : k[2] <= Len(_sessions[k[1]])})

\* InMemoryEventLedger.append(event), called on the ledger itself.
LedgerAppend(event) ==
    /\ LedgerEntries < MaxAppends
    /\ _events' = LedgerEvents(_events, event)
    /\ _sessions' = LedgerSessions(_sessions, event)
    /\ UNCHANGED <<config, enrichment, _session_stats, pc, call, tasks, pe, others>>

\* InMemoryEventLedger.get_event: self._events.get(event_id).
get_event(events, event_id) == IF event_id \in DOMAIN events THEN events[event_id] ELSE NoEvent

NextLedger == \E event \in LedgerInputs : LedgerAppend(event)
\* Appends on an InMemoryEventLedger, in any order and with any ids.
SpecLedger == InitPolicy /\ [][NextLedger]_vars

\* C11 as stated: no ledger operation, a further append with an id already
\* stored included, changes what get_event returns for a stored id or the
\* entries that earlier appends put in a session's timeline.
C11_Original ==
    [][/\ \A event_id \in DOMAIN _events :
             get_event(_events', event_id) = get_event(_events, event_id)
       /\ \A session_id \in DOMAIN _sessions :
             /\ session_id \in DOMAIN _sessions'
             /\ Len(_sessions'[session_id]) >= Len(_sessions[session_id])
             /\ SubSeq(_sessions'[session_id], 1, Len(_sessions[session_id]))
                   = _sessions[session_id]]_vars


\* ------------------------------------------------------------------ adapters
\* before_tool_call with a guard that lets a REVIEW raise as well.
before_tool_call_strict(h, decision, event) ==
    IF decision \in {"block", "review"}
    THEN [h EXCEPT !.state = "raised", !.error = "BlockedByAgentGuard", !.event = event]
    ELSE [h EXCEPT !.state = "returned"]

\* LangGraphAdapter.before_tool_call after intercept returned
\* (decision, event): BlockedByAgentGuard(event) on a BLOCK.
before_tool_call(h, decision, event) ==
    IF decision = "block"
    THEN [h EXCEPT !.state = "raised", !.error = "BlockedByAgentGuard", !.event = event]
    ELSE [h EXCEPT !.state = "returned"]

\* AgentGuardOpenAIHooks.on_tool_start after intercept returned
\* (decision, event).
on_tool_start(h, decision, event) ==
    IF decision = "block"
    THEN [h EXCEPT !.state = "raised", !.error = "BlockedByAgentGuard", !.event = event]
    ELSE [h EXCEPT !.state = "returned"]

\* guarded_tool that runs the tool before it asks the guard.
guarded_tool_runs_first(h, decision, event, tool_raises, langchain) ==
    IF tool_raises THEN [h EXCEPT !.tool_runs = h.tool_runs + 1, !.state = "raised", !.error = "tool"]
    ELSE IF before_tool_call(h, decision, event).state = "raised"
    THEN [h EXCEPT !.tool_runs = h.tool_runs + 1, !.state = "returned", !.event = event,
                   !.result = IF langchain THEN "blocked_tool_message" ELSE "blocked_content"]
    ELSE [h EXCEPT !.tool_runs = h.tool_runs + 1, !.state = "returned", !.result = "tool_result"]

\* The guarded_tool of LangGraphAdapter.wrap_tool after intercept returned
\* (decision, event).  BlockedByAgentGuard from before_tool_call is caught
\* and answered with a ToolMessage holding _BLOCKED_CONTENT (the bare content
\* when langchain_core cannot be imported); otherwise tool_fn is awaited,
\* and it returns or raises (tool_raises).
guarded_tool(h, decision, event, tool_raises, langchain) ==
    IF before_tool_call(h, decision, event).state = "raised"
    THEN [h EXCEPT !.state = "returned", !.event = event,
                   !.result = IF langchain THEN "blocked_tool_message" ELSE "blocked_content"]
    ELSE IF tool_raises
    THEN [h EXCEPT !.tool_runs = h.tool_runs + 1, !.state = "raised", !.error = "tool"]
    ELSE [h EXCEPT !.tool_runs = h.tool_runs + 1, !.state = "returned", !.result = "tool_result"]

\* An adapter hook or a wrapped tool is called: it builds the payload for
\* intercept, with the adapter's framework tag and session.
HookCall(kind, request) ==
    /\ hook.state = "idle"
    /\ request.framework = (IF kind = "on_tool_start" THEN "openai" ELSE "langgraph")
    /\ hook' = [hook EXCEPT !.kind = kind, !.state = "awaiting", !.request = request]
    /\ UNCHANGED <<config, enrichment, _session_stats, pc, call, _events, _sessions, tasks, pe,
                   publisher, stream, log, _store, worker, more>>

\* The intercept call of the hook (call 1, on the adapter's session) starts.
HookIntercept == hook.state = "awaiting" /\ Start(1, CallerSession, hook.request)

\* The intercept call of the hook is over.  An exception of intercept
\* leaves the hook as it is (guarded_tool catches BlockedByAgentGuard only).
HookFinish(tool_raises, langchain) ==
    /\ hook.state = "awaiting"
    /\ pc[1] \in {"returned", "raised"}
    /\ hook' =
         IF pc[1] = "raised" THEN [hook EXCEPT !.state = "raised", !.error = call[1].error]
         ELSE CASE hook.kind = "before_tool_call" ->
                     before_tool_call(hook, call[1].event.decision, call[1].event)
                [] hook.kind = "on_tool_start" ->
                     on_tool_start(hook, call[1].event.decision, call[1].event)
                [] hook.kind = "wrap_tool" ->
                     guarded_tool(hook, call[1].event.decision, call[1].event,
                                  tool_raises, langchain)
    /\ UNCHANGED <<config, enrichment, _session_stats, pc, call, _events, _sessions, tasks, pe,
                   publisher, stream, log, _store, worker, more>>

NextAdapters ==
    \/ \E kind \in {"before_tool_call", "on_tool_start", "wrap_tool"},
          request \in AdapterRequests : HookCall(kind, request)
    \/ HookIntercept
    \/ \E reply \in Replies : Analyze(1, reply)
    \/ \E stored \in BOOLEAN : AppendLimit(1, stored)
    \/ \E stored \in BOOLEAN : AppendEvent(1, stored)
    \/ \E tool_raises \in BOOLEAN, langchain \in BOOLEAN : HookFinish(tool_raises, langchain)
\* One tool call through an adapter hook or a wrapped tool.
SpecAdapters == Init /\ [][NextAdapters]_vars

\* The intercept call under the hook returned decision.
HookDecided(decision) ==
    /\ hook.state \in {"returned", "raised"}
    /\ pc[1] = "returned" /\ call[1].event.decision = decision

\* C12: a wrapped tool runs the underlying tool exactly once when intercept
\* returned ALLOW or REVIEW and never when it returned BLOCK; on BLOCK the
\* wrapper returns the blocked message and raises nothing.
C12_WrapToolRunsIffNotBlocked ==
    hook.kind = "wrap_tool" =>
        /\ (HookDecided("allow") \/ HookDecided("review")) => hook.tool_runs = 1
        /\ HookDecided("block") =>
              /\ hook.tool_runs = 0
              /\ hook.state = "returned"
              /\ hook.result \in {"blocked_tool_message", "blocked_content"}
        /\ hook.state = "awaiting" => hook.tool_runs = 0
\* A wrapped tool was blocked by a rule of the policy and returned the
\* blocked message without running the tool.
C12_Witness ==
    /\ hook.kind = "wrap_tool" /\ HookDecided("block")
    /\ call[1].path = "policy"
    /\ hook.tool_runs = 0 /\ hook.result = "blocked_tool_message"


\* C13: before_tool_call and on_tool_start raise BlockedByAgentGuard exactly
\* when intercept returned BLOCK, and the error carries the event intercept
\* returned; on ALLOW and REVIEW they return.
C13_HooksRaiseIffBlocked ==
    (hook.kind \in {"before_tool_call", "on_tool_start"} /\ pc[1] = "returned"
       /\ hook.state \in {"returned", "raised"}) =>
        /\ (hook.state = "raised") <=> (call[1].event.decision = "block")
        /\ hook.state = "raised" =>
              /\ hook.error = "BlockedByAgentGuard"
              /\ hook.event = call[1].event
              /\ hook.event = get_event(_events, EventId(1))
              /\ hook.event.assessment # NoAssessment
              /\ hook.event.policy_violation # NoViolation
\* on_tool_start raised for a call that the session limit blocked, and
\* before_tool_call returned for a call flagged for review.
C13_Witness ==
    \/ /\ hook.kind = "on_tool_start" /\ hook.state = "raised"
       /\ call[1].path = "session_limit"
       /\ hook.event.policy_violation.rule_name = "session_limits"
    \/ /\ hook.kind = "before_tool_call" /\ hook.state = "returned"
       /\ HookDecided("review")


\* ---------------------------------------------------------------- enrichment
\* The enrichment tasks spawned for the event of call c.
TasksOf(c) == {task \in tasks : task.event_id = EventId(c)}
\* The one task a dispatch over the given transport spawns for call c.
Spawned(c, kind) == {[kind |-> kind, event_id |-> EventId(c)]}

LogRecord(msg, id) == [msg |-> msg, id |-> id]

\* RedisStreamPublisher.publish_event and publish_insight on the stream
\* called name: _get_client, then XADD of entry, which is sent or fails.
\* Neither looks at _enabled: a disabled publisher has the URL "", which
\* redis.asyncio.from_url rejects with ValueError, and _client stays None.
publish(p, s, name, entry, sent) ==
    IF p.client = "none" /\ ~p.enabled
    THEN [publisher |-> p, stream |-> s, raised |-> TRUE]
    ELSE [publisher |-> [p EXCEPT !.client = "connected"],
          stream |-> IF sent THEN [s EXCEPT ![name] = Append(@, entry)] ELSE s,
          raised |-> ~sent]

\* put that pops the last item on overflow (popitem() without last=False).
put_pops_last(store, insight) ==
    LET kept == SelectSeq(store.items, LAMBDA item : item.event_id # insight.event_id)
        items == Append(kept, insight)
    IN  [store EXCEPT !.items = IF Len(items) > store.maxsize
                                THEN SubSeq(items, 1, Len(items) - 1) ELSE items]

\* put without the del: assigning to a key of an OrderedDict keeps the
\* key's position.
put_in_place(store, insight) ==
    LET items == IF \E i \in DOMAIN store.items : store.items[i].event_id = insight.event_id
                 THEN [i \in DOMAIN store.items |->
                          IF store.items[i].event_id = insight.event_id THEN insight
                          ELSE store.items[i]]
                 ELSE Append(store.items, insight)
    IN  [store EXCEPT !.items = IF Len(items) > store.maxsize THEN Tail(items) ELSE items]

\* InsightsStore.put: an insight with the same event id is deleted, the
\* insight goes to the end, and the first item is popped when the store
\* has grown past _maxsize.
put(store, insight) ==
    LET kept == SelectSeq(store.items, LAMBDA item : item.event_id # insight.event_id)
        items == Append(kept, insight)
    IN  [store EXCEPT !.items = IF Len(items) > store.maxsize THEN Tail(items) ELSE items]

\* An except branch of _publish_to_stream that only logs.
publish_failed_no_fallback(task) == {}

\* The except branch of _publish_to_stream: the task goes on with
\* _enrich_with_rowboat for the same event.
publish_failed(task) == {[kind |-> "triage", event_id |-> task.event_id]}

\* A _publish_to_stream task runs: publish_event returns or raises.
PublishToStream(task, sent) ==
    /\ task \in tasks /\ task.kind = "publish"
    /\ LET r == publish(publisher, stream, "events", task.event_id, sent)
       IN  /\ publisher' = r.publisher
           /\ stream' = r.stream
           /\ IF r.raised
              THEN /\ log' = log \cup {LogRecord("stream_publish_failed", task.event_id)}
                   /\ tasks' = (tasks \ {task}) \cup publish_failed(task)
              ELSE /\ log' = log \cup {LogRecord("event_published_to_stream", task.event_id)}
                   /\ tasks' = tasks \ {task}
    /\ UNCHANGED <<config, enrichment, _session_stats, pc, call, _events, _sessions, pe,
                   hook, _store, worker, more>>

\* The outcomes of RowboatClient.triage_event: an insight with the
\* workflow's summary, the insight built from an empty reply after an error
\* of the workflow call, or an exception of the insight's construction.
TriageOutcomes == {"summary", "Analysis unavailable", "raised"}

\* _enrich_with_rowboat runs to its end, as a task of its own or as the
\* fallback of _publish_to_stream: the insight is put in the store, or the
\* exception is logged.
EnrichWithRowboat(task, outcome) ==
    /\ task \in tasks /\ task.kind = "triage"
    /\ tasks' = tasks \ {task}
    /\ IF outcome = "raised"
       THEN /\ log' = log \cup {LogRecord("rowboat_triage_failed", task.event_id)}
            /\ UNCHANGED _store
       ELSE /\ _store' = put(_store, [event_id |-> task.event_id, analysis |-> outcome])
            /\ log' = log \cup {LogRecord("rowboat_triage_complete", task.event_id)}
    /\ UNCHANGED <<config, enrichment, _session_stats, pc, call, _events, _sessions, pe,
                   hook, publisher, stream, worker, more>>

\* A caller of the publisher calls publish_event or publish_insight
\* itself; result is what the call did.
PublishDirect(op, entry, sent) ==
    /\ Len(stream.events) + Len(stream.insights) < MaxEntries
    /\ LET r == publish(publisher, stream,
                        IF op = "publish_event" THEN "events" ELSE "insights", entry, sent)
       IN  /\ publisher' = [r.publisher EXCEPT !.result = IF r.raised THEN "raised" ELSE "returned"]
           /\ stream' = r.stream
    /\ UNCHANGED <<config, enrichment, _session_stats, pc, call, _events, _sessions, tasks, pe,
                   hook, log, _store, worker, more>>

NextEnrichment ==
    \/ \E session_arg \in SessionArgs, request \in Requests : Start(1, session_arg, request)
    \/ \E reply \in Replies : Analyze(1, reply)
    \/ \E stored \in BOOLEAN : AppendLimit(1, stored)
    \/ \E stored \in BOOLEAN : AppendEvent(1, stored)
    \/ \E task \in tasks, sent \in BOOLEAN : PublishToStream(task, sent)
    \/ \E task \in tasks, outcome \in TriageOutcomes : EnrichWithRowboat(task, outcome)
    \/ \E op \in {"publish_event", "publish_insight"}, entry \in Calls, sent \in BOOLEAN :
          PublishDirect(op, entry, sent)
\* One intercept call, its enrichment task, and direct calls of the
\* publisher.
SpecEnrichment == Init /\ [][NextEnrichment]_vars

\* The enrichment of the event of call c is over with the given record.
Logged(msg, c) == LogRecord(msg, EventId(c)) \in log

\* C15: when the publish of an event failed, its intercept call had
\* already returned that event with its decision, and no step of the task
\* changes what the call returned or the ledger; in-process enrichment is
\* under way for the same event or has ended, with an insight or with its
\* failure logged, and nothing else is left of the task.
C15_PublishFailureFallsBack ==
    /\ [](\A c \in Calls : Logged("stream_publish_failed", c) =>
            /\ pc[c] = "returned" /\ call[c].event = get_event(_events, EventId(c))
            /\ call[c].event.decision \in {"block", "review"}
            /\ \/ TasksOf(c) = Spawned(c, "triage")
               \/ /\ TasksOf(c) = {}
                  /\ Logged("rowboat_triage_complete", c) # Logged("rowboat_triage_failed", c))
    /\ [][tasks' \subseteq tasks /\ tasks' # tasks =>
            UNCHANGED <<pc, call, _events, _sessions, _session_stats>>]_vars
\* The publish of the event of a returned call failed, and the in-process
\* enrichment that followed failed as well.
C15_Witness ==
    /\ Logged("stream_publish_failed", 1) /\ Logged("rowboat_triage_failed", 1)
    /\ pc[1] = "returned" /\ tasks = {}


\* C16 as stated: with no stream configuration the publisher is disabled
\* and a publish call on it is a no-op: no client is made, no entry is
\* added to either stream and the call raises nothing.
C16_Original ==
    ~publisher.enabled =>
        /\ publisher.client = "none"
        /\ stream.events = <<>> /\ stream.insights = <<>>
        /\ publisher.result # "raised"


\* ------------------------------------------------------------ stream worker
\* count=10 of the XREADGROUP call.
ReadCount == 10

\* run awaits ensure_group: XGROUP CREATE from id "0", an error (the group
\* exists) is ignored.
EnsureGroup(consumer) ==
    /\ worker[consumer].pc = "start"
    /\ stream' = [stream EXCEPT !.group = TRUE]
    /\ worker' = [worker EXCEPT ![consumer].pc = "poll"]
    /\ UNCHANGED <<config, enrichment, _session_stats, pc, call, _events, _sessions, tasks, pe,
                   hook, publisher, log, _store, more>>

\* The ids XREADGROUP ... ">" delivers: the entries after the group's
\* last-delivered id, at most ReadCount of them.
NewEntries(s) ==
    LET last == IF Len(s.events) - s.last_delivered > ReadCount
                THEN s.last_delivered + ReadCount ELSE Len(s.events)
    IN  [i \in 1..(last - s.last_delivered) |-> s.last_delivered + i]

\* One XREADGROUP of the loop.  It raises (the poll error is logged and
\* the handler of the error awaits asyncio.sleep(poll_interval)), returns
\* nothing (continue), or returns a batch, which Redis enters in the
\* group's pending entries under this consumer.
XReadGroup(consumer, ok) ==
    /\ worker[consumer].pc = "poll" /\ stream.group
    /\ IF ~ok
       THEN /\ log' = log \cup {LogRecord("redis_consumer_poll_error", 0)}
            /\ worker' = [worker EXCEPT ![consumer].pc = "backoff"]
            /\ UNCHANGED stream
       ELSE /\ NewEntries(stream) # <<>>
            /\ stream' = [stream EXCEPT
                   !.last_delivered = @ + Len(NewEntries(stream)),
                   !.pel = @ \cup {[id |-> NewEntries(stream)[i], consumer |-> consumer] :
                                     i \in DOMAIN NewEntries(stream)}]
            /\ worker' = [worker EXCEPT ![consumer].pc = "handle",
                                        ![consumer].batch = NewEntries(stream),
                                        ![consumer].first = NewEntries(stream)[1]]
            /\ UNCHANGED log
    /\ UNCHANGED <<config, enrichment, _session_stats, pc, call, _events, _sessions, tasks, pe,
                   hook, publisher, _store, more>>

\* A loop body that gives up the batch when a handler raises.
rest_of_batch_dropped(batch) == <<>>

\* The entries of the batch the inner loop goes on with after an entry.
rest_of_batch(batch) == Tail(batch)

\* The handler raised, or XACK did, for an entry before.
HandlerError(id) == LogRecord("redis_consumer_handler_error", id) \in log

\* The body of the inner loop for the next entry of the batch: the handler
\* returns (handled) and XACK removes the entry from the pending entries
\* (acked), or one of the two raises and the error is logged.  An entry
\* fails at most once: the handler succeeds when it is tried again.
HandleMessage(consumer, handled, acked) ==
    /\ worker[consumer].pc = "handle"
    /\ LET id == Head(worker[consumer].batch)
           rest == IF handled /\ acked THEN Tail(worker[consumer].batch)
                   ELSE rest_of_batch(worker[consumer].batch)
       IN  /\ (handled /\ acked) \/ ~HandlerError(id)
           /\ stream' = IF handled /\ acked
                        THEN [stream EXCEPT !.pel = @ \ {[id |-> id, consumer |-> consumer]}]
                        ELSE stream
           /\ log' = IF handled /\ acked THEN log
                     ELSE log \cup {LogRecord("redis_consumer_handler_error", id)}
           /\ worker' = [worker EXCEPT
                  ![consumer].handled = IF handled THEN @ \cup {id} ELSE @,
                  ![consumer].batch = rest,
                  ![consumer].pc = IF rest = <<>> THEN "poll" ELSE "handle"]
    /\ UNCHANGED <<config, enrichment, _session_stats, pc, call, _events, _sessions, tasks, pe,
                   hook, publisher, _store, more>>

\* The sleep after a poll error is over: the loop polls again.
BackOff(consumer) ==
    /\ worker[consumer].pc = "backoff"
    /\ worker' = [worker EXCEPT ![consumer].pc = "poll"]
    /\ UNCHANGED <<config, enrichment, _session_stats, pc, call, _events, _sessions, tasks, pe,
                   hook, publisher, stream, log, _store, more>>

\* Whether run gets to `await client.aclose()` when CancelledError is
\* raised at the await it stands at.  In the try body (the blocking read,
\* the handler, XACK) the error passes the inner `except Exception` and
\* `except asyncio.CancelledError: break` ends the loop before aclose.  In
\* the sleep it is raised inside the `except Exception` clause, which no
\* clause of the same try handles: it leaves run.
closed_after_cancel(at) == at \in {"poll", "handle"}

\* The task of run is cancelled at one of the awaits of its loop (main
\* calls worker_task.cancel() and awaits the task).
Cancel(consumer) ==
    /\ worker[consumer].pc \in {"poll", "handle", "backoff"}
    /\ worker' = [worker EXCEPT ![consumer].pc = "stopped", ![consumer].batch = <<>>,
                                ![consumer].closed = closed_after_cancel(worker[consumer].pc)]
    /\ UNCHANGED <<config, enrichment, _session_stats, pc, call, _events, _sessions, tasks, pe,
                   hook, publisher, stream, log, _store, more>>

\* The steps of the publisher and of workers that run.
NextRunning ==
    \/ \E entry \in Calls, sent \in BOOLEAN : PublishDirect("publish_event", entry, sent)
    \/ \E consumer \in Consumers : EnsureGroup(consumer)
    \/ \E consumer \in Consumers, ok \in BOOLEAN : XReadGroup(consumer, ok)
    \/ \E consumer \in Consumers : BackOff(consumer)
    \/ \E consumer \in Consumers, handled \in BOOLEAN, acked \in BOOLEAN :
          HandleMessage(consumer, handled, acked)
NextStream ==
    \/ NextRunning
    \/ \E consumer \in Consumers : Cancel(consumer)
\* The publisher is enabled.
InitStream == Init /\ config = DefaultConfig
\* The events stream, its publisher and the workers of the consumer group.
SpecStream == InitStream /\ [][NextStream]_vars

Delivered(id) == id <= stream.last_delivered
Pending(id) == \E entry \in stream.pel : entry.id = id
Acked(id) == Delivered(id) /\ ~Pending(id)
Range(seq) == {seq[i] : i \in DOMAIN seq}

\* C17: an entry is acknowledged only when the handler returned for it; an
\* entry whose handler raised stays pending; and a worker that runs leaves
\* no entry of its batch out: each pending entry of it is still in the
\* batch or has its error logged.
C17_AckOnlyAfterHandlerReturned ==
    \A id \in 1..Len(stream.events) :
        /\ Acked(id) => \E consumer \in Consumers : id \in worker[consumer].handled
        /\ HandlerError(id) => Pending(id)
        /\ \A entry \in stream.pel :
              (entry.id = id /\ worker[entry.consumer].pc # "stopped") =>
                  id \in Range(worker[entry.consumer].batch) \/ HandlerError(id)
\* The handler raised for the first entry of a batch of two and the second
\* entry of that batch was handled and acknowledged.
C17_Witness ==
    \E consumer \in Consumers :
        /\ worker[consumer].first = 1 /\ worker[consumer].handled = {2}
        /\ HandlerError(1) /\ Pending(1) /\ Acked(2)


\* Workers that are never cancelled, under weak fairness: a step of the
\* publisher or of a worker that stays possible is taken.  A read that
\* returns nothing changes nothing, so the loop of a worker with nothing
\* new to read is a stuttering step.
FairSpecStream == InitStream /\ [][NextRunning]_vars /\ WF_vars(NextRunning)

\* C18 as stated: delivery is at least once, so every entry of the events
\* stream is eventually handled and acknowledged, the handler failing at
\* most once for each entry.
C18_Original == \A id \in 1..MaxEntries : (id <= Len(stream.events)) ~> Acked(id)


\* ------------------------------------------------------------ insight store
\* The event ids insights are put for: one more than the largest capacity.
StoreIds == 1..(MaxSize + 1)

\* A caller puts an insight for event_id.  The analysis of the insight is
\* the number of the put, so that the insights of two puts differ.
Put(event_id) ==
    /\ _store.puts < MaxPuts
    /\ _store' = [put(_store, [event_id |-> event_id, analysis |-> _store.puts + 1])
                     EXCEPT !.puts = @ + 1]
    /\ UNCHANGED <<config, enrichment, _session_stats, pc, call, _events, _sessions, tasks, pe,
                   hook, publisher, stream, log, worker, more>>

\* Python's seq[start:]: a negative start counts from the end, and both
\* ends are clamped to the sequence.
SliceFrom(seq, start) ==
    LET first == IF start < 0
                 THEN (IF Len(seq) + start < 0 THEN 0 ELSE Len(seq) + start)
                 ELSE (IF start > Len(seq) THEN Len(seq) ELSE start)
    IN  SubSeq(seq, first + 1, Len(seq))
\* InsightsStore.list_recent: list(self._store.values())[-limit:].
list_recent(store, limit) == SliceFrom(store.items, 0 - limit)
\* limit: int = 50 of list_recent.
DefaultLimit == 50
\* A list read from its end: from the most to the least recent.
Reversed(seq) == [i \in DOMAIN seq |-> seq[Len(seq) + 1 - i]]

\* A caller lists the recent insights.
ListRecent(limit) ==
    /\ ret' = [op |-> "list_recent", args |-> [limit |-> limit, items |-> _store.items],
               result |-> list_recent(_store, limit)]
    /\ UNCHANGED <<config, enrichment, _session_stats, pc, call, _events, _sessions, tasks, pe,
                   hook, publisher, stream, log, _store, worker, engine, db>>

NextStore ==
    \/ \E event_id \in StoreIds : Put(event_id)
    \/ \E limit \in 0..(MaxSize + 1) : ListRecent(limit)
\* A store with a capacity that has room for two insights (the one store
\* the source builds has capacity 1000).
InitStore ==
    /\ config = DefaultConfig
    /\ enrichment = "off"
    /\ _session_stats = <<>>
    /\ pc = [c \in Calls |-> "idle"]
    /\ call = [c \in Calls |-> IdleCall]
    /\ _events = <<>>
    /\ _sessions = <<>>
    /\ tasks = {}
    /\ pe = PeIdle
    /\ hook = HookIdle
    /\ publisher = RedisStreamPublisher(FALSE)
    /\ stream = EmptyStream
    /\ log = {}
    /\ \E maxsize \in 2..MaxSize : _store = InsightsStore(maxsize)
    /\ worker = [consumer \in Consumers |-> WorkerIdle]
    /\ InitMore
\* Calls of put on one insight store.
SpecStore == InitStore /\ [][NextStore]_vars

\* The event ids a store holds.
StoredIds(store) == {store.items[i].event_id : i \in DOMAIN store.items}
\* The ids the put that made _store' evicted.
Evicted == StoredIds(_store) \ StoredIds(_store')
\* The insight the put that made _store' was called with.
JustPut(event_id) == [event_id |-> event_id, analysis |-> _store'.puts]

\* C19: the store never holds more than maxsize insights; a put keeps the
\* insight it was called with, evicts at most one other insight and only
\* when the store would exceed maxsize, and the insight it evicts is the
\* one whose last put is the oldest.
C19_EvictsLeastRecentlyPut ==
    /\ [](Len(_store.items) <= _store.maxsize)
    /\ [][_store' # _store => \E event_id \in StoredIds(_store') :
            /\ JustPut(event_id) = _store'.items[Len(_store'.items)]
            /\ Evicted # {} =>
                  /\ event_id \notin StoredIds(_store)
                  /\ Len(_store.items) = _store.maxsize
                  /\ \E old \in DOMAIN _store.items :
                        /\ Evicted = {_store.items[old].event_id}
                        /\ \A i \in DOMAIN _store.items :
                              _store.items[old].analysis <= _store.items[i].analysis
            /\ \A i \in DOMAIN _store.items :
                  (_store.items[i].event_id \notin Evicted \cup {event_id}) =>
                      \E j \in DOMAIN _store'.items : _store'.items[j] = _store.items[i]]_vars
\* A full store of capacity 2 after a put that evicted the insight of its
\* oldest put: the insight put again at the second put stayed.
C19_Witness ==
    /\ _store.maxsize = 2 /\ _store.puts = 4
    /\ _store.items = <<[event_id |-> 1, analysis |-> 3], [event_id |-> 3, analysis |-> 4]>>


\* C20: a put with an event id the store holds replaces the insight of that
\* id by the new one, moves it to the most recent position, leaves the
\* size as it was and the other insights in their order; and the store
\* after put(x); put(x); put(y) is [y, x] from the most to the least
\* recent, x with the insight of its second put (the insight of the first
\* put is gone).
C20_ReputMovesToMostRecent ==
    /\ [][\A event_id \in StoredIds(_store) :
            (_store' # _store /\ JustPut(event_id) = _store'.items[Len(_store'.items)]) =>
                /\ Len(_store'.items) = Len(_store.items)
                /\ StoredIds(_store') = StoredIds(_store)
                /\ Reversed(list_recent(_store', DefaultLimit))[1] = JustPut(event_id)
                /\ SubSeq(_store'.items, 1, Len(_store.items) - 1)
                     = SelectSeq(_store.items, LAMBDA item : item.event_id # event_id)]_vars
    /\ [](\A x, y \in StoredIds(_store) :
            (/\ _store.puts = 3
             /\ [event_id |-> x, analysis |-> 2] \in {_store.items[i] : i \in DOMAIN _store.items}
             /\ [event_id |-> y, analysis |-> 3] \in {_store.items[i] : i \in DOMAIN _store.items}
             /\ \A i \in DOMAIN _store.items : _store.items[i].analysis # 1
             /\ x # y) =>
                Reversed(list_recent(_store, DefaultLimit)) = <<[event_id |-> y, analysis |-> 3],
                                        [event_id |-> x, analysis |-> 2]>>)
\* The store after put(1); put(1); put(2).
C20_Witness ==
    /\ _store.puts = 3 /\ _store.maxsize = MaxSize
    /\ Reversed(list_recent(_store, DefaultLimit)) = <<[event_id |-> 2, analysis |-> 3], [event_id |-> 1, analysis |-> 2]>>


\* C21 as stated: list_recent(n) returns the min(n, size) insights put
\* last, in insertion order, for every n >= 0.
C21_Original ==
    ret.op = "list_recent" =>
        LET size == Len(ret.args.items)
            count == IF ret.args.limit < size THEN ret.args.limit ELSE size
        IN  ret.result = SubSeq(ret.args.items, size - count + 1, size)


\* ------------------------------------------------------------- policy reload
\* PolicyConfig.from_yaml that builds the configuration without validating
\* it (model_construct).
from_yaml_unvalidated(doc) ==
    [raised |-> IF doc.kind = "unreadable" THEN "OSError" ELSE "none", config |-> doc.cfg]

\* PolicyConfig.from_yaml on what the file holds: open raises OSError,
\* cls(**policy_data) raises ValidationError for an unknown key
\* (extra="forbid"), a threshold outside [0, 1] or review_threshold >=
\* risk_threshold.
from_yaml(doc) ==
    [raised |-> IF doc.kind = "unreadable" THEN "OSError"
                ELSE IF doc.kind # "policy" \/ ~ValidConfig(doc.cfg) THEN "ValidationError"
                ELSE "none",
     config |-> doc.cfg]

\* reload that remembers the path before it loads the file.
reload_path_first(eng, cfg, path) ==
    LET reload_path == IF path # "none" THEN path ELSE eng._path
        loaded == from_yaml(eng.files[reload_path])
    IN  IF reload_path = "none"
        THEN [config |-> cfg, engine |-> [eng EXCEPT !.error = "ValueError"]]
        ELSE IF loaded.raised # "none"
        THEN [config |-> cfg, engine |-> [eng EXCEPT !.error = loaded.raised, !._path = reload_path]]
        ELSE [config |-> loaded.config,
              engine |-> [eng EXCEPT !.error = "none", !._path = reload_path]]

\* PolicyEngine.reload(path) on an engine holding cfg: the new values of
\* _config and _path, and what the call raised.
reload(eng, cfg, path) ==
    LET reload_path == IF path # "none" THEN path ELSE eng._path
        loaded == from_yaml(eng.files[reload_path])
    IN  IF reload_path = "none"
        THEN [config |-> cfg, engine |-> [eng EXCEPT !.error = "ValueError"]]
        ELSE IF loaded.raised # "none"
        THEN [config |-> cfg, engine |-> [eng EXCEPT !.error = loaded.raised]]
        ELSE [config |-> loaded.config,
              engine |-> [eng EXCEPT !.error = "none", !._path = reload_path]]

\* Two policies whose rule lists differ, and what else a policy file may
\* hold: thresholds in the wrong order, a threshold above 1, an unknown key.
ReviewRules ==
    [deny_tools |-> <<>>, allow_tools |-> <<>>, deny_path_patterns |-> <<>>,
     deny_domains |-> <<>>, review_tools |-> <<S_email_send, S_bash>>]
DenyRules ==
    [deny_tools |-> <<S_BA_star>>, allow_tools |-> <<>>, deny_path_patterns |-> <<S_ssh_glob>>,
     deny_domains |-> <<>>, review_tools |-> <<>>]
Docs ==
    {Doc("policy", PolicyConfig(ReviewRules, 75, 60, 0, 0)),
     Doc("policy", PolicyConfig(DenyRules, 50, 30, 0, 0)),
     Doc("policy", PolicyConfig(DenyRules, 60, 60, 0, 0)),
     Doc("policy", PolicyConfig(DenyRules, 150, 60, 0, 0)),
     Doc("unknown_field", PolicyConfig(DenyRules, 50, 30, 0, 0)),
     NoFile}

\* A caller (the API, a file watcher) calls engine.reload(path).
Reload(path) ==
    /\ config' = reload(engine, config, path).config
    /\ engine' = reload(engine, config, path).engine
    /\ UNCHANGED <<enrichment, _session_stats, pc, call, _events, _sessions, tasks, pe,
                   hook, publisher, stream, log, _store, worker, ret, db>>

\* The policy file at path is replaced.
WriteFile(path, doc) ==
    /\ engine' = [engine EXCEPT !.files[path] = doc]
    /\ UNCHANGED <<config, enrichment, _session_stats, pc, call, _events, _sessions, tasks, pe,
                   hook, publisher, stream, log, _store, worker, ret, db>>

\* The rule lists evaluate reads from self._config, in the order of its
\* rules.
RuleLists ==
    <<"deny_tools", "allow_tools", "deny_path_patterns", "deny_domains", "review_tools">>

\* A thread calls engine.evaluate(action).
EvaluateEnter(action) ==
    /\ engine.thread.pos \in {0, Len(RuleLists) + 1}
    /\ engine' = [engine EXCEPT !.thread =
           [pos |-> 1, action |-> action, during |-> {},
            seen |-> PolicyConfig([name \in {RuleLists[i] : i \in DOMAIN RuleLists} |-> <<>>],
                                  config.risk_threshold, config.review_threshold, 0, 0),
            result |-> Outcome("none", NoViolation)]]
    /\ UNCHANGED <<config, enrichment, _session_stats, pc, call, _events, _sessions, tasks, pe,
                   hook, publisher, stream, log, _store, worker, ret, db>>

\* The thread in evaluate reaches its next rule and reads the rule's list
\* from self._config as it is now; after the last rule it returns what the
\* lists it read give.  (A rule that returns earlier has read the same
\* lists up to there.)
EvaluateRule ==
    /\ engine.thread.pos \in DOMAIN RuleLists
    /\ LET name == RuleLists[engine.thread.pos]
           seen == [engine.thread.seen EXCEPT ![name] = config[name]]
       IN  engine' = [engine EXCEPT
               !.thread.pos = @ + 1,
               !.thread.seen = seen,
               !.thread.during = @ \cup {config},
               !.thread.result = IF engine.thread.pos = Len(RuleLists)
                                 THEN evaluate(seen, engine.thread.action) ELSE @]
    /\ UNCHANGED <<config, enrichment, _session_stats, pc, call, _events, _sessions, tasks, pe,
                   hook, publisher, stream, log, _store, worker, ret, db>>

NextReload ==
    \/ \E path \in Paths \cup {"none"} : Reload(path)
    \/ \E path \in Paths, doc \in Docs : WriteFile(path, doc)
    \/ EvaluateEnter(Action(S_bash, "shell_command", "command" :> Str(S_ls)))
    \/ EvaluateRule
\* An engine built from a configuration, its policy files, reloads, and a
\* thread that calls evaluate.
SpecReload == InitPolicy /\ [][NextReload]_vars

\* C22: a reload that raises leaves _config and _path as they were; it
\* raises ValueError when no path is known, OSError when the file cannot
\* be read and ValidationError for a document PolicyConfig rejects.
C22_FailedReloadKeepsConfig ==
    /\ [][engine'.error # "none" =>
            config' = config /\ engine'._path = engine._path]_vars
    /\ [](\/ engine.error = "none"
          \/ engine.error = "ValueError" /\ engine._path = "none"
          \/ engine.error \in {"OSError", "ValidationError"})
\* After a reload from policy.yaml succeeded, a reload from strict.yaml
\* failed on its thresholds: the engine still holds the policy and the path
\* of the first.
C22_Witness ==
    /\ engine.error = "ValidationError" /\ engine._path = "policy.yaml"
    /\ engine.files["strict.yaml"] = Doc("policy", PolicyConfig(DenyRules, 60, 60, 0, 0))
    /\ engine.files["policy.yaml"] = Doc("policy", PolicyConfig(ReviewRules, 75, 60, 0, 0))
    /\ config = PolicyConfig(ReviewRules, 75, 60, 0, 0)


\* C23 (as stated): an evaluate call that runs while reload swaps the
\* configuration returns what one of the configurations that were active
\* during the call gives for its action, never a combination of their rule
\* lists.
C23_Original ==
    engine.thread.pos = Len(RuleLists) + 1 =>
        \E cfg \in engine.thread.during :
            engine.thread.result = evaluate(cfg, engine.thread.action)

\* C24: the active configuration of the engine always satisfies
\* 0 <= review_threshold < risk_threshold <= 1, whatever was reloaded and
\* whether the reloads succeeded.
C24_ActiveThresholdsOrdered ==
    /\ 0 <= config.review_threshold
    /\ config.review_threshold < config.risk_threshold
    /\ config.risk_threshold <= 100
\* A reload succeeded, then the file it came from got a risk threshold of
\* 1.5 and the next reload failed.
C24_Witness ==
    /\ engine._path # "none"
    /\ engine.error = "ValidationError"
    /\ engine.files[engine._path] = Doc("policy", PolicyConfig(DenyRules, 150, 60, 0, 0))
    /\ config = PolicyConfig(DenyRules, 50, 30, 0, 0)


\* ------------------------------------------- direct calls of pure functions
\* The value of an ActionType member, as a payload declares it.
TypeValue(name) ==
    Str(ActionTypeValues[CHOOSE i \in 1..Len(ActionTypeValues) : ActionTypeValues[i].name = name].value)
S_bogus == <<"b", "o", "g", "u", "s">>
S_not_json == <<"{", "p", "a", "t", "h">>
S_json_list == <<"[", "1", ",", " ", "2", "]">>

\* The payloads the normalizer is called with: generic payloads with each
\* tool, a file path under each of the path keys, and a declared action
\* type (none, a member's value, or a string that is no member); a payload
\* with a harmless path and a credential file; OpenAI tool calls whose
\* arguments string is a JSON object, JSON of another shape, or no JSON.
NormalizeRequests ==
    {[framework |-> "unknown",
      payload |-> ("tool_name" :> Str(tool) @@ "parameters" :> Dict(PATH_KEYS[k] :> Str(path))
                   @@ declared)] :
        tool \in {S_bash, S_file_read, S_email_send},
        k \in DOMAIN PATH_KEYS,
        path \in {S_id_rsa, S_readme},
        declared \in {<<>>, "action_type" :> TypeValue("shell_command"),
                     "action_type" :> TypeValue("file_read"), "type" :> Str(S_bogus)}}
    \cup
    {[framework |-> "unknown",
      payload |-> ("tool_name" :> Str(S_file_read)
                   @@ "parameters" :> Dict("path" :> Str(S_readme) @@ "file" :> Str(S_id_rsa)))]}
    \cup
    {[framework |-> "openai",
      payload |-> ("function" :> Dict("name" :> Str(tool) @@ "arguments" :> arguments))] :
        tool \in {S_bash, S_file_read, S_email_send},
        arguments \in {Json("object", "path" :> Str(S_id_rsa)), Json("object", <<>>),
                       Json("other", S_json_list), Json("invalid", S_not_json)}}

\* The limits a policy may configure (SessionLimits accepts every int).
LimitValues == {-1, 0, 1, 2}
MaxCounter == 3
LimitCalls ==
    {[cfg |-> PolicyConfig(Rules, 75, 60, max_actions, max_blocked),
      session_actions |-> session_actions, session_blocked |-> session_blocked] :
        max_actions \in LimitValues, max_blocked \in LimitValues,
        session_actions \in 0..MaxCounter, session_blocked \in 0..MaxCounter}

\* A call about to be made: of the normalizer on a payload, or of
\* evaluate_session_limits on a session's counters.
InitCalls ==
    /\ config = DefaultConfig
    /\ enrichment = "off"
    /\ _session_stats = <<>>
    /\ pc = [c \in Calls |-> "idle"]
    /\ call = [c \in Calls |-> IdleCall]
    /\ _events = <<>>
    /\ _sessions = <<>>
    /\ tasks = {}
    /\ pe = PeIdle
    /\ hook = HookIdle
    /\ publisher = RedisStreamPublisher(FALSE)
    /\ stream = EmptyStream
    /\ log = {}
    /\ _store = InsightsStore(MaxSize)
    /\ worker = [consumer \in Consumers |-> WorkerIdle]
    /\ engine = EngineIdle
    /\ db = EmptyDb
    /\ \/ \E request \in NormalizeRequests :
              ret = [op |-> "call_normalize", args |-> request, result |-> <<>>]
       \/ \E args \in LimitCalls :
              ret = [op |-> "call_evaluate_session_limits", args |-> args, result |-> <<>>]

\* Step 1 of intercept on the payload.
NormalizeCall ==
    /\ ret.op = "call_normalize"
    /\ ret' = [ret EXCEPT !.op = "normalize",
                          !.result = Normalize(ret.args.payload, ret.args.framework)]
    /\ UNCHANGED <<config, enrichment, _session_stats, pc, call, _events, _sessions, tasks, pe,
                   hook, publisher, stream, log, _store, worker, engine, db>>

\* engine.evaluate_session_limits(session_actions, session_blocked).
SessionLimitsCall ==
    /\ ret.op = "call_evaluate_session_limits"
    /\ ret' = [ret EXCEPT !.op = "evaluate_session_limits",
                          !.result = evaluate_session_limits(ret.args.cfg, ret.args.session_actions,
                                                             ret.args.session_blocked)]
    /\ UNCHANGED <<config, enrichment, _session_stats, pc, call, _events, _sessions, tasks, pe,
                   hook, publisher, stream, log, _store, worker, engine, db>>

NextCalls == NormalizeCall \/ SessionLimitsCall
SpecCalls == InitCalls /\ [][NextCalls]_vars

\* C25 (as stated): whenever the parameters of the normalized payload carry,
\* under one of the path keys, a path that is a credential path, the Action
\* has type credential_access, for every tool and declared type.
C25_Original ==
    (/\ ret.op = "normalize"
     /\ ret.result.ok
     /\ \E k \in DOMAIN PATH_KEYS :
            LET val == Get(ret.result.action.parameters, PATH_KEYS[k])
            IN  IsStr(val) /\ is_credential_path(val.v))
    => ret.result.action.type = "credential_access"

\* C26 (as stated): evaluate_session_limits returns BLOCK exactly when
\* actions >= max_actions or blocked >= max_blocked, a limit of 0 included,
\* and otherwise ALLOW with no violation.
C26_Original ==
    ret.op = "evaluate_session_limits" =>
        /\ ret.result.decision = "block" <=>
               \/ ret.args.session_actions >= ret.args.cfg.max_actions
               \/ ret.args.session_blocked >= ret.args.cfg.max_blocked
        /\ ret.result.decision # "block" => ret.result = Outcome("allow", NoViolation)
\* C26: evaluate_session_limits returns BLOCK exactly when max_actions is
\* not 0 and actions >= max_actions, or max_blocked is not 0 and
\* blocked >= max_blocked; otherwise it returns ALLOW with no violation.  A
\* limit of 0 switches its check off.
C26_NonZeroLimitReachedBlocks ==
    ret.op = "evaluate_session_limits" =>
        /\ ret.result.decision = "block" <=>
               \/ ret.args.cfg.max_actions # 0
                  /\ ret.args.session_actions >= ret.args.cfg.max_actions
               \/ ret.args.cfg.max_blocked # 0
                  /\ ret.args.session_blocked >= ret.args.cfg.max_blocked
        /\ ret.result.decision # "block" => ret.result = Outcome("allow", NoViolation)
\* Both limits 0 and counters above them: the call returned ALLOW; and the
\* blocked counter alone at its limit gives BLOCK in another call.
C26_Witness ==
    /\ ret.op = "evaluate_session_limits"
    /\ ret.args.cfg.max_actions = 0 /\ ret.args.cfg.max_blocked = 0
    /\ ret.args.session_actions = 2 /\ ret.args.session_blocked = 1
    /\ ret.result = Outcome("allow", NoViolation)

\* C27 (as stated): from_openai_tool_call returns an Action for every
\* arguments string, with parameters {raw: <string>} when the string is not
\* valid JSON.
C27_Original ==
    (/\ ret.op = "normalize"
     /\ ret.args.framework = "openai"
     /\ "function" \in DOMAIN ret.args.payload)
    => /\ ret.result.ok
       /\ LET arguments == ret.args.payload["function"].v["arguments"]
          IN  arguments.kind = "invalid" =>
                  ret.result.action.parameters = ("raw" :> Str(arguments.v))


\* ---------------------------------------------- ledger/db.py: durable ledger
\* session.get(SessionRecord, session_id) on the committed rows.
SessionRow(sessions, session_id) ==
    IF session_id \in DOMAIN sessions THEN sessions[session_id] ELSE NoRow

\* intercept has built the event of call c and awaits ledger.append(event)
\* on the durable ledger: append opens a database session, adds the event
\* record and awaits session.get.
DbBegin(c, session_arg, decision) ==
    LET session_id == IF session_arg = NoSession THEN c ELSE session_arg
        event == Event(c, session_id, Action(S_bash, "shell_command", <<>>), NoAssessment,
                       decision, NoViolation, "unknown")
    IN  /\ pc[c] = "idle"
        /\ pc' = [pc EXCEPT ![c] = "append"]
        /\ call' = [call EXCEPT ![c] =
               [session_id |-> session_id, path |-> "policy", error |-> "none", event |-> event]]
        /\ _session_stats' = Touch(_session_stats, session_id)
        /\ db' = [db EXCEPT !.txn[c] = [state |-> "get", event |-> event, read |-> NoRow]]
        /\ UNCHANGED <<config, enrichment, _events, _sessions, tasks, pe,
                       hook, publisher, stream, log, _store, worker, ret, engine>>

\* session.get returns the session's committed row, or None; append prepares
\* a new SessionRecord or the row with its counters incremented, and awaits
\* session.commit.
DbGet(c) ==
    /\ db.txn[c].state = "get"
    /\ db' = [db EXCEPT !.txn[c].state = "commit",
                        !.txn[c].read = SessionRow(db.sessions, db.txn[c].event.session_id)]
    /\ UNCHANGED <<config, enrichment, _session_stats, pc, call, _events, _sessions, tasks, pe,
                   hook, publisher, stream, log, _store, worker, ret, engine>>

\* session.commit: the event row is inserted and the session row inserted
\* or updated to the values computed from what was read.  An insert of a
\* session row whose key exists by now violates the primary key: the
\* transaction is rolled back and append raises.  On success intercept goes
\* on to the enrichment dispatch and the counters and returns.
DbCommit(c) ==
    LET txn == db.txn[c]
        event == txn.event
        blocked == IF event.decision = "block" THEN 1 ELSE 0
    IN  /\ txn.state = "commit"
        /\ IF ~txn.read.exists /\ event.session_id \in DOMAIN db.sessions
           THEN /\ db' = [db EXCEPT !.txn[c].state = "failed"]
                /\ pc' = [pc EXCEPT ![c] = AppendFailed(c).pc]
                /\ call' = [call EXCEPT ![c] = AppendFailed(c).call]
                /\ UNCHANGED <<tasks, _session_stats>>
           ELSE /\ db' = [db EXCEPT
                       !.txn[c].state = "done",
                       !.events = @ \cup {event},
                       !.sessions =
                           (event.session_id :>
                               [exists |-> TRUE,
                                total_events |-> txn.read.total_events + 1,
                                blocked_events |-> txn.read.blocked_events + blocked]) @@ @]
                /\ tasks' = tasks \cup Dispatch(event)
                /\ _session_stats' = CountAction(_session_stats, call[c].session_id, event.decision)
                /\ pc' = [pc EXCEPT ![c] = "returned"]
                /\ UNCHANGED call
        /\ UNCHANGED <<config, enrichment, _events, _sessions, pe,
                       hook, publisher, stream, log, _store, worker, ret, engine>>

\* The task running intercept is cancelled while append is suspended in
\* session.get or session.commit: CancelledError is raised there, the
\* database session is closed without a commit, and the error leaves
\* append and intercept (neither shields the append nor catches it).
CancelAppend(c) ==
    /\ db.txn[c].state \in {"get", "commit"}
    /\ db' = [db EXCEPT !.txn[c].state = "cancelled"]
    /\ pc' = [pc EXCEPT ![c] = "raised"]
    /\ call' = [call EXCEPT ![c] = Raised(call[c].session_id, "CancelledError")]
    /\ UNCHANGED <<config, enrichment, _session_stats, _events, _sessions, tasks, pe,
                   hook, publisher, stream, log, _store, worker, ret, engine>>

NextDb ==
    \/ \E c \in Calls, session_arg \in SessionArgs, decision \in {"allow", "block"} :
           DbBegin(c, session_arg, decision)
    \/ \E c \in Calls : DbGet(c)
    \/ \E c \in Calls : DbCommit(c)
    \/ \E c \in Calls : CancelAppend(c)
\* Concurrent intercept calls at their ledger append, on the durable
\* ledger, for the caller's session or a session of their own.
SpecDb == InitPolicy /\ [][NextDb]_vars

\* C28 (as stated): when the caller of intercept is cancelled after the
\* event was built, while the ledger append is in progress, the event is
\* in the ledger afterwards.
C28_Original ==
    \A c \in Calls :
        db.txn[c].state = "cancelled" => db.txn[c].event \in db.events

\* C29 (as stated): once the concurrent appends of a session's events are
\* over (none was cancelled), every append succeeded, every event row is
\* stored, and the session row exists with total_events the number of
\* events appended and blocked_events the number of BLOCK events.
C29_Original ==
    (\A c \in Calls : db.txn[c].state \in {"idle", "done", "failed"}) =>
        \A session_id \in {CallerSession} \cup Calls :
            LET started == {c \in Calls : /\ db.txn[c].state # "idle"
                                          /\ db.txn[c].event.session_id = session_id}
                row == SessionRow(db.sessions, session_id)
            IN  /\ \A c \in started :
                       db.txn[c].state = "done" /\ db.txn[c].event \in db.events
                /\ started # {} =>
                       /\ row.exists
                       /\ row.total_events = Cardinality(started)
                       /\ row.blocked_events =
                              Cardinality({c \in started : db.txn[c].event.decision = "block"})

\* ------------------------------------------------ event_ledger.py: list_events
\* seq[start:stop] of Python, for every pair of integers.
Slice(seq, start, stop) ==
    LET len == Len(seq)
        norm(i) == IF i < 0 THEN (IF len + i < 0 THEN 0 ELSE len + i)
                   ELSE IF i > len THEN len ELSE i
    IN  SubSeq(seq, norm(start) + 1, norm(stop))

\* list(self._events.values()): the events in the order their ids were
\* first inserted, which is the order of the ids here (AppendStamped).
Values(events) == [i \in 1..Cardinality(DOMAIN events) |-> events[i]]

\* events.sort(key=lambda e: e.timestamp, reverse=True): a stable sort,
\* events of one timestamp keep their order.
RECURSIVE SortByTimestampDesc(_)
SortByTimestampDesc(seq) ==
    IF seq = <<>> THEN <<>>
    ELSE LET sorted == SortByTimestampDesc(SubSeq(seq, 1, Len(seq) - 1))
             e == seq[Len(seq)]
             k == Cardinality({i \in DOMAIN sorted : sorted[i].timestamp >= e.timestamp})
         IN  SubSeq(sorted, 1, k) \o <<e>> \o SubSeq(sorted, k + 1, Len(sorted))

\* The keyword arguments of list_events.  A session_id, decision, since or
\* until that is None (or falsy) is NoSession, "none" and 0; min_risk and
\* max_risk are None or a number.
Filters(session_id, decision, min_risk, max_risk, since, until) ==
    [session_id |-> session_id, decision |-> decision, min_risk |-> min_risk,
     max_risk |-> max_risk, since |-> since, until |-> until]
NoFilters == Filters(NoSession, "none", None, None, 0, 0)

\* The list comprehensions of list_events, one after the other.
Filtered(seq, f) ==
    LET keep(e) ==
            /\ f.session_id # NoSession => e.session_id = f.session_id
            /\ f.decision # "none" => e.decision = f.decision
            /\ f.min_risk # None => e.assessment.risk_score >= f.min_risk.v
            /\ f.max_risk # None => e.assessment.risk_score <= f.max_risk.v
            /\ f.since # 0 => e.timestamp >= f.since
            /\ f.until # 0 => e.timestamp <= f.until
    IN  SelectSeq(seq, keep)

\* list_events that slices events[offset : limit].
list_events_stop_at_limit(events, f, limit, offset) ==
    Slice(SortByTimestampDesc(Filtered(Values(events), f)), offset, limit)

\* InMemoryEventLedger.list_events
list_events(events, f, limit, offset) ==
    Slice(SortByTimestampDesc(Filtered(Values(events), f)), offset, offset + limit)

\* The events appended (two sessions, two decisions and two clock values,
\* so that events share a timestamp), and the filters of the calls.
StampedInputs ==
    {[session_id |-> CallerSession, score |-> 5, timestamp |-> 1],
     [session_id |-> CallerSession, score |-> 92, timestamp |-> 2],
     [session_id |-> 1, score |-> 92, timestamp |-> 1],
     [session_id |-> 1, score |-> 5, timestamp |-> 2]}
ListFilters ==
    {NoFilters,
     [NoFilters EXCEPT !.session_id = CallerSession],
     [NoFilters EXCEPT !.decision = "block"],
     [NoFilters EXCEPT !.min_risk = Num(0)],
     [NoFilters EXCEPT !.min_risk = Num(75)],
     [NoFilters EXCEPT !.max_risk = Num(5)],
     [NoFilters EXCEPT !.since = 2],
     [NoFilters EXCEPT !.until = 1],
     [NoFilters EXCEPT !.session_id = 1, !.decision = "allow", !.since = 1, !.until = 2]}

\* ledger.append of an event with a fresh id, built at clock value
\* timestamp (events reach the ledger in any order of their timestamps).
AppendStamped(session_id, score, timestamp) ==
    LET id == Cardinality(DOMAIN _events) + 1
        event == Event(id, session_id, Action(S_bash, "shell_command", <<>>),
                       RiskAssessment(score, <<"model">>, <<>>, TRUE, "claude-sonnet-4-6"),
                       IF score >= 75 THEN "block" ELSE "allow", NoViolation, "unknown")
                 @@ ("timestamp" :> timestamp)
    IN  /\ id <= MaxAppends
        /\ _events' = LedgerEvents(_events, event)
        /\ _sessions' = LedgerSessions(_sessions, event)
        /\ ret' = [op |-> "append", args |-> <<>>, result |-> <<>>]
        /\ UNCHANGED <<config, enrichment, _session_stats, pc, call, tasks, pe,
                       hook, publisher, stream, log, _store, worker, engine, db>>

\* ledger.list_events(**f, limit=limit, offset=offset).  The call changes
\* nothing in the ledger, so one call between two appends stands for any
\* number of them.
ListEvents(f, limit, offset) ==
    /\ ret.op # "list_events"
    /\ ret' = [op |-> "list_events", args |-> [f |-> f, limit |-> limit, offset |-> offset],
               result |-> list_events(_events, f, limit, offset)]
    /\ UNCHANGED <<config, enrichment, _session_stats, pc, call, _events, _sessions, tasks, pe,
                   hook, publisher, stream, log, _store, worker, engine, db>>

NextList ==
    \/ \E e \in StampedInputs : AppendStamped(e.session_id, e.score, e.timestamp)
    \/ \E f \in ListFilters, limit \in 0..MaxAppends, offset \in 0..MaxAppends :
           ListEvents(f, limit, offset)
\* Appends of timestamped events and list_events calls on one ledger.
SpecList == InitPolicy /\ [][NextList]_vars

\* C30: list_events returns stored events that match every given filter,
\* in descending order of timestamp, and exactly those at positions
\* offset..offset+limit-1 of that order: a page has
\* min(limit, matching - offset) events, pages with disjoint offset ranges
\* share no event, and the pages at offsets 0, limit, 2*limit, ... together
\* hold every matching event exactly once.
C30_ListEventsPages ==
    ret.op = "list_events" =>
        LET f == ret.args.f
            limit == ret.args.limit
            offset == ret.args.offset
            page == ret.result
            matching ==
                {id \in DOMAIN _events :
                    /\ f.session_id # NoSession => _events[id].session_id = f.session_id
                    /\ f.decision # "none" => _events[id].decision = f.decision
                    /\ f.min_risk # None => _events[id].assessment.risk_score >= f.min_risk.v
                    /\ f.max_risk # None => _events[id].assessment.risk_score <= f.max_risk.v
                    /\ f.since # 0 => _events[id].timestamp >= f.since
                    /\ f.until # 0 => _events[id].timestamp <= f.until}
            rest == Cardinality(matching) - offset
            Ids(seq) == {seq[i].event_id : i \in DOMAIN seq}
        IN  /\ \A i \in DOMAIN page :
                   page[i].event_id \in matching /\ page[i] = _events[page[i].event_id]
            /\ \A i, j \in DOMAIN page :
                   i < j => page[i].timestamp >= page[j].timestamp /\ page[i] # page[j]
            /\ Len(page) = (IF rest < 0 THEN 0 ELSE IF limit < rest THEN limit ELSE rest)
            /\ \A i \in DOMAIN page :
                   /\ Cardinality({id \in matching :
                          _events[id].timestamp > page[i].timestamp}) < offset + i
                   /\ Cardinality({id \in matching :
                          _events[id].timestamp >= page[i].timestamp}) >= offset + i
            /\ \A limit2 \in 0..MaxAppends, offset2 \in 0..MaxAppends :
                   (offset2 + limit2 <= offset \/ offset + limit <= offset2) =>
                       Ids(page) \cap Ids(list_events(_events, f, limit2, offset2)) = {}
            /\ limit >= 1 =>
                   \A id \in matching :
                       Cardinality({k \in 0..MaxAppends :
                           id \in Ids(list_events(_events, f, limit, k * limit))}) = 1
\* Three events of which two have the same timestamp are all matched and
\* the second page of size 1 was listed.
C30_Witness ==
    /\ ret.op = "list_events"
    /\ ret.args.f = NoFilters /\ ret.args.limit = 1 /\ ret.args.offset = 1
    /\ Len(ret.result) = 1
    /\ Cardinality(DOMAIN _events) = 3
    /\ _events[1].timestamp = 1 /\ _events[2].timestamp = 2 /\ _events[3].timestamp = 2
    /\ ret.result[1] = _events[3]


\* --------------------------------------- event_ledger.py: session timelines
\* events.sort(key=lambda e: e.timestamp): a stable ascending sort.
RECURSIVE SortByTimestamp(_)
SortByTimestamp(seq) ==
    IF seq = <<>> THEN <<>>
    ELSE LET sorted == SortByTimestamp(SubSeq(seq, 1, Len(seq) - 1))
             e == seq[Len(seq)]
             k == Cardinality({i \in DOMAIN sorted : sorted[i].timestamp <= e.timestamp})
         IN  SubSeq(sorted, 1, k) \o <<e>> \o SubSeq(sorted, k + 1, Len(sorted))

\* InMemoryEventLedger.get_timeline
get_timeline(events, sessions, session_id) ==
    LET event_ids == IF session_id \in DOMAIN sessions THEN sessions[session_id] ELSE <<>>
        present == SelectSeq(event_ids, LAMBDA eid : eid \in DOMAIN events)
    IN  SortByTimestamp([i \in DOMAIN present |-> events[present[i]]])

\* TimelineSummary; none is the None that get_timeline_summary returns for
\* a session without events.  avg_risk_score is risk_sum / total_events.
TimelineSummary(none, events) ==
    LET of(decision) == Cardinality({i \in DOMAIN events : events[i].decision = decision})
        scores == {events[i].assessment.risk_score : i \in DOMAIN events}
        RECURSIVE Sum(_)
        Sum(i) == IF i = 0 THEN 0 ELSE events[i].assessment.risk_score + Sum(i - 1)
    IN  [none |-> none,
         total_events |-> Len(events),
         blocked_events |-> of("block"),
         reviewed_events |-> of("review"),
         allowed_events |-> of("allow"),
         max_risk_score |-> IF none THEN 0 ELSE CHOOSE m \in scores : \A x \in scores : x <= m,
         risk_sum |-> Sum(Len(events)),
         start_time |-> IF none THEN 0 ELSE events[1].timestamp,
         end_time |-> IF none THEN 0 ELSE events[Len(events)].timestamp,
         attack_vectors |->
             UNION {{events[i].assessment.indicators[j] : j \in DOMAIN events[i].assessment.indicators} :
                       i \in {i \in DOMAIN events : events[i].decision = "block"}}]

\* InMemoryEventLedger.get_timeline_summary
get_timeline_summary(events, sessions, session_id) ==
    LET timeline == get_timeline(events, sessions, session_id)
    IN  IF timeline = <<>> THEN TimelineSummary(TRUE, <<>>) ELSE TimelineSummary(FALSE, timeline)

\* The events a caller appends: ids that come again, two sessions, the
\* three decisions with their indicators, and clock values out of order.
TimedInputs ==
    {Event(e[1], e[2], Action(S_bash, "shell_command", <<>>),
           RiskAssessment(e[3], <<"model">>, e[4], TRUE, "claude-sonnet-4-6"),
           IF e[3] >= 75 THEN "block" ELSE IF e[3] >= 60 THEN "review" ELSE "allow",
           NoViolation, "unknown") @@ ("timestamp" :> e[5]) :
        e \in {<<1, CallerSession, 92, <<"data_exfiltration", "unusual_target">>, 2>>,
               <<2, CallerSession, 5, <<>>, 1>>,
               <<2, CallerSession, 80, <<"unusual_target">>, 2>>,
               <<3, CallerSession, 65, <<"unusual_target">>, 1>>,
               <<1, 1, 5, <<>>, 1>>,
               <<3, 1, 92, <<"credential_theft">>, 2>>}}

\* ledger.append(event), called on the ledger itself.
AppendTimed(event) ==
    /\ LedgerEntries < MaxAppends
    /\ _events' = LedgerEvents(_events, event)
    /\ _sessions' = LedgerSessions(_sessions, event)
    /\ ret' = [op |-> "append", args |-> <<>>, result |-> <<>>]
    /\ UNCHANGED <<config, enrichment, _session_stats, pc, call, tasks, pe,
                   hook, publisher, stream, log, _store, worker, engine, db>>

\* ledger.get_timeline(session_id); like every query it changes nothing,
\* so one query between two appends stands for any number of them.
GetTimeline(session_id) ==
    /\ ret.op \in {"none", "append"}
    /\ ret' = [op |-> "get_timeline", args |-> session_id,
               result |-> get_timeline(_events, _sessions, session_id)]
    /\ UNCHANGED <<config, enrichment, _session_stats, pc, call, _events, _sessions, tasks, pe,
                   hook, publisher, stream, log, _store, worker, engine, db>>

\* ledger.get_timeline_summary(session_id)
GetTimelineSummary(session_id) ==
    /\ ret.op \in {"none", "append"}
    /\ ret' = [op |-> "get_timeline_summary", args |-> session_id,
               result |-> get_timeline_summary(_events, _sessions, session_id)]
    /\ UNCHANGED <<config, enrichment, _session_stats, pc, call, _events, _sessions, tasks, pe,
                   hook, publisher, stream, log, _store, worker, engine, db>>

NextTimeline ==
    \/ \E event \in TimedInputs : AppendTimed(event)
    \/ \E session_id \in {CallerSession, 1, 2} : GetTimeline(session_id)
    \/ \E session_id \in {CallerSession, 1, 2} : GetTimelineSummary(session_id)
\* Appends and timeline queries on one InMemoryEventLedger.
SpecTimeline == InitPolicy /\ [][NextTimeline]_vars

\* C31 (as stated): get_timeline(s) returns exactly the events appended
\* with session id s, each once, in ascending timestamp order, and nothing
\* of other sessions: a returned timeline holds only events of s, no event
\* twice, in ascending order; and an append of event e adds e to the
\* timeline of e's session and leaves the other timelines as they were.
C31_Original ==
    /\ [](ret.op = "get_timeline" =>
            /\ \A i \in DOMAIN ret.result : ret.result[i].session_id = ret.args
            /\ \A i, j \in DOMAIN ret.result :
                   i < j => /\ ret.result[i].event_id # ret.result[j].event_id
                            /\ ret.result[i].timestamp <= ret.result[j].timestamp)
    /\ [][_sessions' # _sessions =>
            \E event \in TimedInputs :
                /\ _sessions' = LedgerSessions(_sessions, event)
                /\ \A session_id \in {CallerSession, 1, 2} :
                       LET before == get_timeline(_events, _sessions, session_id)
                           after == get_timeline(_events', _sessions', session_id)
                       IN  IF session_id # event.session_id THEN after = before
                           ELSE \E k \in DOMAIN after :
                                   /\ after[k] = event
                                   /\ before = SubSeq(after, 1, k - 1)
                                                  \o SubSeq(after, k + 1, Len(after))]_vars

\* C32 (as stated): get_timeline_summary(s) is none exactly when s has
\* no events; otherwise total_events is the sum of the three decision
\* counts and the number of events appended for s, max_risk_score is at
\* least every appended event's score, and attack_vectors is the union of
\* the indicators of the BLOCK events appended for s: an append of event e
\* to s adds 1 to total_events, keeps max_risk_score at least e's score and
\* at least what it was, and adds e's indicators to attack_vectors exactly
\* when e is a BLOCK.
C32_Original ==
    /\ [](ret.op = "get_timeline_summary" =>
            /\ ret.result.none <=> (ret.args \notin DOMAIN _sessions)
            /\ ret.result.total_events =
                   ret.result.blocked_events + ret.result.reviewed_events
                   + ret.result.allowed_events)
    /\ [][_sessions' # _sessions =>
            \E event \in TimedInputs :
                /\ _sessions' = LedgerSessions(_sessions, event)
                /\ _events' = LedgerEvents(_events, event)
                /\ LET before == get_timeline_summary(_events, _sessions, event.session_id)
                       after == get_timeline_summary(_events', _sessions', event.session_id)
                       indicators == {event.assessment.indicators[j] :
                                         j \in DOMAIN event.assessment.indicators}
                   IN  /\ ~after.none
                       /\ after.total_events = before.total_events + 1
                       /\ after.max_risk_score >= event.assessment.risk_score
                       /\ after.max_risk_score >= before.max_risk_score
                       /\ after.attack_vectors =
                              before.attack_vectors
                              \cup (IF event.decision = "block" THEN indicators ELSE {})]_vars


\* ------------------------------------------------- intercept: the decision
\* Call c made its session-limit check and went on in this step.
Started(c) == pc[c] = "idle" /\ pc'[c] \notin {"idle", "raised"}
\* The event of call c is built.
Built(c) == pc[c] \in {"append_limit", "append", "returned"}

\* C33: there is no lock-in.  A call whose session's counters are below
\* both limits when it checks them is not blocked by session_limits, and
\* the decision of every call that was not is determined by the policy,
\* the action and the score alone: two such calls with the same action
\* and score, whatever their sessions saw before, have the same decision
\* and violation.
C33_NoLockIn ==
    /\ [][\A c \in Calls :
            (/\ Started(c)
             /\ StatsOf(_session_stats, call'[c].session_id).actions < config.max_actions
             /\ StatsOf(_session_stats, call'[c].session_id).blocked < config.max_blocked)
            => call'[c].path # "session_limit"]_vars
    /\ [](\A c, d \in Calls :
            (/\ Built(c) /\ Built(d)
             /\ call[c].path # "session_limit" /\ call[d].path # "session_limit"
             /\ call[c].event.action = call[d].event.action
             /\ call[c].event.assessment.risk_score = call[d].event.assessment.risk_score)
            => /\ call[c].event.decision = call[d].event.decision
               /\ call[c].event.policy_violation = call[d].event.policy_violation)
\* A session whose first call returned BLOCK has a second call, below both
\* limits, that returned ALLOW.
C33_Witness ==
    \E c, d \in Calls :
        /\ c < d /\ call[c].session_id = call[d].session_id
        /\ pc[c] = "returned" /\ call[c].event.decision = "block"
        /\ pc[d] = "returned" /\ call[d].event.decision = "allow"
        /\ _session_stats[call[c].session_id] = [actions |-> 2, blocked |-> 1]
        /\ _sessions[call[c].session_id] = <<EventId(c), EventId(d)>>
        /\ 2 < config.max_actions /\ 1 < config.max_blocked

\* C34: a call invokes the classifier exactly when neither its
\* session-limit check nor the deterministic policy returned BLOCK, a
\* deterministic REVIEW included.  The event of a deterministic BLOCK has
\* the synthesised assessment of model policy_engine with the violation's
\* rule type as its indicator and score 0.95 for credential_access, else
\* 0.80; the event of a session-limit BLOCK has score 1.0.
C34_ClassifierIffNotBlocked ==
    /\ [][\A c \in Calls :
            Started(c) =>
                LET stats == StatsOf(_session_stats, call'[c].session_id)
                    limit == evaluate_session_limits(config, stats.actions, stats.blocked)
                    r == CHOOSE r \in Requests : normalize[r].action = call'[c].event.action
                    det == deterministic[config][r]
                IN  pc'[c] = "analyze" <=>
                        (limit.decision # "block" /\ det.decision # "block")]_vars
    /\ [](\A c \in Calls :
            Built(c) =>
                LET event == call[c].event
                IN  /\ (event.assessment.analyzer_model = "policy_engine"
                        /\ event.policy_violation.rule_name # "session_limits") =>
                           /\ event.decision = "block"
                           /\ event.assessment.indicators = <<event.policy_violation.rule_type>>
                           /\ event.assessment.risk_score =
                                  (IF event.action.type = "credential_access" THEN 95 ELSE 80)
                    /\ event.policy_violation.rule_name = "session_limits" =>
                           /\ event.decision = "block"
                           /\ event.assessment.analyzer_model = "policy_engine"
                           /\ event.assessment.risk_score = 100
                    /\ call[c].path = "classifier" =>
                           event.assessment.analyzer_model # "policy_engine")
\* One call is at the classifier with a deterministic REVIEW while another
\* returned the deterministic BLOCK of a credential access, score 0.95.
C34_Witness ==
    \E c, d \in Calls :
        /\ pc[c] = "analyze" /\ call[c].event.decision = "review"
        /\ pc[d] = "returned" /\ call[d].path = "policy"
        /\ call[d].event.action.type = "credential_access"
        /\ call[d].event.assessment.risk_score = 95

\* C35: on the classifier path the final decision is the more restrictive
\* of the deterministic decision and evaluate_risk of the score, under
\* ALLOW < REVIEW < BLOCK.
C35_MoreRestrictiveOfBoth ==
    [][\A c \in Calls :
          (pc[c] = "analyze" /\ pc'[c] = "append") =>
              LET det == Restrictiveness(call[c].event.decision)
                  risk == Restrictiveness(
                              evaluate_risk(config, call'[c].event.assessment.risk_score).decision)
              IN  Restrictiveness(call'[c].event.decision) = (IF det > risk THEN det ELSE risk)]_vars
\* A review_tools REVIEW whose score was below the review threshold
\* returned REVIEW, and a deterministic ALLOW was raised by its score.
C35_Witness ==
    \E c, d \in Calls :
        /\ pc[c] = "returned" /\ call[c].path = "classifier"
        /\ call[c].event.decision = "review"
        /\ call[c].event.policy_violation.rule_name = "review_tools"
        /\ call[c].event.assessment.risk_score < config.review_threshold
        /\ pc[d] = "returned" /\ call[d].path = "classifier"
        /\ call[d].event.policy_violation.rule_type = "risk_score"


\* C36: when every intercept call that was made has returned, each
\* session's actions counter is the number of calls returned for it and
\* its blocked counter the number of those that returned BLOCK, the
\* session-limit blocks included; blocked never exceeds actions.
C36_CountersMatchReturns ==
    (\A c \in Calls : pc[c] \in {"idle", "returned"}) =>
        \A session_id \in {CallerSession} \cup Calls :
            LET returned == {c \in Calls : pc[c] = "returned" /\ call[c].session_id = session_id}
                stats == StatsOf(_session_stats, session_id)
            IN  /\ stats.actions = Cardinality(returned)
                /\ stats.blocked =
                       Cardinality({c \in returned : call[c].event.decision = "block"})
                /\ stats.blocked <= stats.actions
\* Two calls of one session returned, a REVIEW and a session-limit BLOCK,
\* and another session's counters are its own.
C36_Witness ==
    \E c, d \in Calls :
        /\ pc[c] = "returned" /\ pc[d] = "returned"
        /\ call[c].session_id = call[d].session_id
        /\ call[c].event.decision = "review"
        /\ call[d].path = "session_limit"
        /\ _session_stats[call[c].session_id] = [actions |-> 2, blocked |-> 1]

\* C38: every event intercept builds has no policy violation exactly when
\* its decision is ALLOW, and a violation's decision is the event's.
C38_ViolationIffNotAllow ==
    /\ \A c \in Calls :
           Built(c) =>
               /\ call[c].event.policy_violation = NoViolation <=> call[c].event.decision = "allow"
               /\ call[c].event.policy_violation # NoViolation =>
                      call[c].event.policy_violation.decision = call[c].event.decision
    /\ \A id \in DOMAIN _events :
           /\ _events[id].policy_violation = NoViolation <=> _events[id].decision = "allow"
           /\ _events[id].policy_violation # NoViolation =>
                  _events[id].policy_violation.decision = _events[id].decision
\* The ledger holds a review_tools REVIEW that its score raised to BLOCK,
\* with the risk violation, and an ALLOW without violation.
C38_Witness ==
    \E c, d \in DOMAIN _events :
        /\ _events[c].action.tool_name = S_email_send
        /\ _events[c].decision = "block"
        /\ _events[c].policy_violation.rule_name = "risk_threshold"
        /\ _events[d].decision = "allow" /\ _events[d].policy_violation = NoViolation

C40_DecisionCoversScore ==
    /\ \A c \in Calls :
           Built(c) =>
               /\ call[c].event.decision = "allow" =>
                      call[c].event.assessment.risk_score < config.review_threshold
               /\ call[c].event.decision = "review" =>
                      call[c].event.assessment.risk_score < config.risk_threshold
    /\ \A id \in DOMAIN _events :
           /\ _events[id].decision = "allow" =>
                  _events[id].assessment.risk_score < config.review_threshold
           /\ _events[id].decision = "review" =>
                  _events[id].assessment.risk_score < config.risk_threshold
\* The ledger holds a REVIEW whose score is between the thresholds and an
\* ALLOW below both, from the classifier.
C40_Witness ==
    \E c, d \in DOMAIN _events :
        /\ _events[c].decision = "review"
        /\ _events[c].policy_violation.rule_name = "review_threshold"
        /\ _events[c].assessment.risk_score >= config.review_threshold
        /\ _events[d].decision = "allow"
        /\ _events[d].assessment.analyzer_model # "policy_engine"


\* C37 as stated: the consumer loop goes on after a poll error and after a
\* handler error and ends only by the cancellation of its task, and a
\* loop that cancellation ended (in the blocking read, the handler, XACK
\* or the sleep after a poll error) has closed its connection.
C37_Original ==
    /\ [][\A consumer \in Consumers :
            (worker[consumer].pc # "stopped" /\ worker'[consumer].pc = "stopped")
                => Cancel(consumer)]_vars
    /\ [](\A consumer \in Consumers :
            worker[consumer].pc = "stopped" => worker[consumer].closed)

====
